---- MODULE Spec2Model ----
(***************************************************************************)
(* A model of the Twingate tray client: the service-state classifier, the  *)
(* network data fetcher with its retry loop (network.rs), the shared       *)
(* AppState (state.rs) and the tasks that read and write it (lib.rs,       *)
(* auth.rs).  Text is modelled as a sequence of one-character strings, so  *)
(* that substring tests, trimming and case folding are computed as the     *)
(* code computes them.                                                     *)
(***************************************************************************)
EXTENDS Integers, Sequences, FiniteSets, TLC

(***************************************************************************)
(* Text helpers: str::trim, str::to_lowercase, str::contains,              *)
(* str::starts_with, str::eq_ignore_ascii_case over ASCII text.            *)
(***************************************************************************)
UpperToLower ==
    [c \in {"A","B","C","D","E","F","G","H","I","J","K","L","M",
            "N","O","P","Q","R","S","T","U","V","W","X","Y","Z"} |->
       CASE c = "A" -> "a" [] c = "B" -> "b" [] c = "C" -> "c" [] c = "D" -> "d"
         [] c = "E" -> "e" [] c = "F" -> "f" [] c = "G" -> "g" [] c = "H" -> "h"
         [] c = "I" -> "i" [] c = "J" -> "j" [] c = "K" -> "k" [] c = "L" -> "l"
         [] c = "M" -> "m" [] c = "N" -> "n" [] c = "O" -> "o" [] c = "P" -> "p"
         [] c = "Q" -> "q" [] c = "R" -> "r" [] c = "S" -> "s" [] c = "T" -> "t"
         [] c = "U" -> "u" [] c = "V" -> "v" [] c = "W" -> "w" [] c = "X" -> "x"
         [] c = "Y" -> "y" [] c = "Z" -> "z"]

LowerChar(c) == IF c \in DOMAIN UpperToLower THEN UpperToLower[c] ELSE c

to_lowercase(s) == [i \in 1..Len(s) |-> LowerChar(s[i])]

IsWhitespace(c) == c \in {" ", "\n", "\t", "\r"}

trim(s) ==
    LET keep == {i \in 1..Len(s) : ~IsWhitespace(s[i])}
    IN  IF keep = {} THEN <<>>
        ELSE LET lo == CHOOSE i \in keep : \A j \in keep : i <= j
                 hi == CHOOSE i \in keep : \A j \in keep : j <= i
             IN  SubSeq(s, lo, hi)

contains(s, pat) ==
    \E i \in 0..(Len(s) - Len(pat)) : SubSeq(s, i + 1, i + Len(pat)) = pat

starts_with(s, c) == Len(s) > 0 /\ s[1] = c

eq_ignore_ascii_case(a, b) == to_lowercase(a) = to_lowercase(b)

contains_any(s, pats) == \E p \in pats : contains(s, p)

(***************************************************************************)
(* Keyword families of ServiceState::from_status_output.                   *)
(***************************************************************************)
AuthPhrases ==
    { <<"a","u","t","h","e","n","t","i","c","a","t","i","o","n"," ","i","s"," ","r","e","q","u","i","r","e","d">>,
      <<"a","u","t","h"," ","r","e","q","u","i","r","e","d">>,
      <<"a","u","t","h","e","n","t","i","c","a","t","i","o","n"," ","r","e","q","u","i","r","e","d">>,
      <<"u","s","e","r"," ","a","u","t","h","e","n","t","i","c","a","t","i","o","n"," ","i","s"," ","r","e","q","u","i","r","e","d">>,
      <<"n","e","e","d","s"," ","a","u","t","h","e","n","t","i","c","a","t","i","o","n">>,
      <<"n","o","t"," ","a","u","t","h","e","n","t","i","c","a","t","e","d">>,
      <<"a","u","t","h","e","n","t","i","c","a","t","i","o","n"," ","n","e","e","d","e","d">>,
      <<"p","l","e","a","s","e"," ","a","u","t","h","e","n","t","i","c","a","t","e">>,
      <<"r","e","q","u","i","r","e","s"," ","a","u","t","h","e","n","t","i","c","a","t","i","o","n">> }

kw_auth == <<"a","u","t","h">>

AuthQualifiers ==
    { <<"r","e","q","u","i","r","e","d">>,
      <<"n","e","e","d","e","d">>,
      <<"e","x","p","i","r","e","d">> }

NotRunningWords ==
    { <<"n","o","t","-","r","u","n","n","i","n","g">>,
      <<"o","f","f","l","i","n","e">>,
      <<"s","t","o","p","p","e","d">>,
      <<"n","o","t"," ","r","u","n","n","i","n","g">>,
      <<"i","n","a","c","t","i","v","e">>,
      <<"d","e","a","d">> }

StartingWords ==
    { <<"s","t","a","r","t","i","n","g">>,
      <<"i","n","i","t","i","a","l","i","z","i","n","g">>,
      <<"b","o","o","t","i","n","g">>,
      <<"l","o","a","d","i","n","g">>,
      <<"l","a","u","n","c","h","i","n","g">> }

ConnectingWords ==
    { <<"c","o","n","n","e","c","t","i","n","g">>,
      <<"a","u","t","h","e","n","t","i","c","a","t","i","n","g">>,
      <<"h","a","n","d","s","h","a","k","e">>,
      <<"e","s","t","a","b","l","i","s","h","i","n","g">>,
      <<"n","e","g","o","t","i","a","t","i","n","g">> }

ConnectedWords ==
    { <<"o","n","l","i","n","e">>,
      <<"c","o","n","n","e","c","t","e","d">>,
      <<"r","e","a","d","y">>,
      <<"a","c","t","i","v","e">>,
      <<"e","s","t","a","b","l","i","s","h","e","d">> }

(***************************************************************************)
(* ServiceState::from_status_output: the authentication phrases first,     *)
(* then the families in the order of the if/else chain, then the default.  *)
(***************************************************************************)
\* from_status_output with the authentication phrases tested after the families
from_status_output_FamiliesFirst(text) ==
    LET output == to_lowercase(trim(text))
    IN  IF contains_any(output, NotRunningWords) THEN "NotRunning"
        ELSE IF contains_any(output, StartingWords) THEN "Starting"
        ELSE IF contains_any(output, ConnectingWords) THEN "Connecting"
        ELSE IF contains_any(output, ConnectedWords) THEN "Connected"
        ELSE IF \/ contains_any(output, AuthPhrases)
                \/ (contains(output, kw_auth) /\ contains_any(output, AuthQualifiers))
        THEN "AuthRequired"
        ELSE "Connecting"

\* from_status_output with the connected keywords tested before the others
from_status_output_ConnectedFirst(text) ==
    LET output == to_lowercase(trim(text))
    IN  IF \/ contains_any(output, AuthPhrases)
           \/ (contains(output, kw_auth) /\ contains_any(output, AuthQualifiers))
        THEN "AuthRequired"
        ELSE IF contains_any(output, ConnectedWords) THEN "Connected"
        ELSE IF contains_any(output, NotRunningWords) THEN "NotRunning"
        ELSE IF contains_any(output, StartingWords) THEN "Starting"
        ELSE IF contains_any(output, ConnectingWords) THEN "Connecting"
        ELSE "Connecting"

\* from_status_output with NotRunning for a text without keywords
from_status_output_UnknownIsNotRunning(text) ==
    LET output == to_lowercase(trim(text))
    IN  IF \/ contains_any(output, AuthPhrases)
           \/ (contains(output, kw_auth) /\ contains_any(output, AuthQualifiers))
        THEN "AuthRequired"
        ELSE IF contains_any(output, NotRunningWords) THEN "NotRunning"
        ELSE IF contains_any(output, StartingWords) THEN "Starting"
        ELSE IF contains_any(output, ConnectingWords) THEN "Connecting"
        ELSE IF contains_any(output, ConnectedWords) THEN "Connected"
        ELSE "NotRunning"

\* network.rs lines 23-62
from_status_output(text) ==
    LET output == to_lowercase(trim(text))
    IN  IF \/ contains_any(output, AuthPhrases)
           \/ (contains(output, kw_auth) /\ contains_any(output, AuthQualifiers))
        THEN "AuthRequired"
        ELSE IF contains_any(output, NotRunningWords) THEN "NotRunning"
        ELSE IF contains_any(output, StartingWords) THEN "Starting"
        ELSE IF contains_any(output, ConnectingWords) THEN "Connecting"
        ELSE IF contains_any(output, ConnectedWords) THEN "Connected"
        ELSE "Connecting"

(***************************************************************************)
(* Option and Result values.  None is the empty sequence and Some(x) the   *)
(* one-element sequence, so that both compare.                             *)
(***************************************************************************)
None == <<>>

Some(x) == <<x>>

\* TwingateError: the variant and, for RetryLimitExceeded and
\* AuthenticationTimeout, its number.
Error(kind) == [kind |-> kind, n |-> 0]

NoError == Error("none")

RetryLimitExceeded(attempts) == [kind |-> "RetryLimitExceeded", n |-> attempts]

\* Result<Option<Network>>
Ok(value) == [ok |-> TRUE, value |-> value, err |-> NoError]

Fail(e) == [ok |-> FALSE, value |-> None, err |-> e]

(***************************************************************************)
(* The output of an external command: whether the process could be         *)
(* spawned, whether its stdout is valid UTF-8, and the text of its stdout. *)
(***************************************************************************)
Output(spawned, utf8, stdout) == [spawned |-> spawned, utf8 |-> utf8, stdout |-> stdout]

SpawnError == Output(FALSE, TRUE, <<>>)

InvalidUtf8Output == Output(TRUE, FALSE, <<>>)

TextOutput(text) == Output(TRUE, TRUE, text)

(***************************************************************************)
(* Status texts the daemon may print.                                      *)
(***************************************************************************)
StatusTexts ==
    { <<>>,
      <<"x","y","z","z","y">>,
      <<"n","o","t"," ","r","u","n","n","i","n","g">>,
      <<"S","t","a","t","u","s",":"," ","o","f","f","l","i","n","e">>,
      <<"s","t","a","r","t","i","n","g">>,
      <<"c","o","n","n","e","c","t","i","n","g">>,
      <<"a","u","t","h","e","n","t","i","c","a","t","i","n","g">>,
      <<"o","n","l","i","n","e">>,
      <<" ","C","o","n","n","e","c","t","e","d","\n">>,
      <<"a","u","t","h"," ","r","e","q","u","i","r","e","d">>,
      <<"c","o","n","n","e","c","t","e","d"," ","b","u","t"," ","a","u","t","h","e","n","t","i","c","a","t","i","o","n"," ","i","s"," ","r","e","q","u","i","r","e","d">>,
      <<"n","o","t","-","r","u","n","n","i","n","g"," ","o","n","l","i","n","e">>,
      <<"s","t","a","r","t","i","n","g"," ","c","o","n","n","e","c","t","i","n","g">> }

StatusOutputs == {SpawnError, InvalidUtf8Output} \cup {TextOutput(t) : t \in StatusTexts}

(***************************************************************************)
(* Network snapshots (models.rs) and their JSON text.  A resource carries  *)
(* its id and name; a snapshot its user's email and its resources.         *)
(***************************************************************************)
MaxResources == 1

UserEmail == <<"u","@","x">>

ResourceUniverse ==
    { [id |-> <<"1">>, name |-> <<"d","b">>],
      [id |-> <<"2">>, name |-> <<"A","u","t","h","e","n","t","i","c","a","t","i","o","n"," ","P","o","r","t","a","l">>] }

ResourceLists ==
    UNION { {rs \in [1..k -> ResourceUniverse] :
                 \A i, j \in 1..k : i # j => rs[i].id # rs[j].id} : k \in 0..MaxResources }

Networks == {[user |-> UserEmail, resources |-> rs] : rs \in ResourceLists}

RECURSIVE Join(_, _)
Join(parts, sep) ==
    IF parts = <<>> THEN <<>>
    ELSE IF Len(parts) = 1 THEN parts[1]
    ELSE parts[1] \o sep \o Join(Tail(parts), sep)

RenderResource(r) ==
    <<"{","\"","i","d","\"",":","\"">> \o r.id \o <<"\"",",","\"","n","a","m","e","\"",":","\"">> \o r.name \o <<"\"","}">>

RenderNetwork(n) ==
    <<"{","\"","u","s","e","r","\"",":","\"">> \o n.user \o <<"\"",",","\"","r","e","s","o","u","r","c","e","s","\"",":","[">>
        \o Join([i \in 1..Len(n.resources) |-> RenderResource(n.resources[i])], <<",">>) \o <<"]","}">>

json_null == <<"n","u","l","l">>

\* serde_json::from_slice::<Option<Network>>: the text of a snapshot parses to
\* that snapshot, null parses to None, anything else is a JsonError.
from_slice(text) ==
    IF text = json_null THEN Ok(None)
    ELSE IF \E n \in Networks : RenderNetwork(n) = text
         THEN Ok(Some(CHOOSE n \in Networks : RenderNetwork(n) = text))
         ELSE Fail(Error("JsonError"))

(***************************************************************************)
(* Outputs of the resources command: snapshots, transitional messages,     *)
(* authentication messages, other text, malformed JSON.                    *)
(***************************************************************************)
PlainBodies ==
    { <<>>,
      <<" ","\n">>,
      <<"o","f","f","l","i","n","e">>,
      <<"C","o","n","n","e","c","t","i","n","g">>,
      <<"a","u","t","h","e","n","t","i","c","a","t","i","n","g">>,
      <<"n","o","t"," ","r","e","a","d","y">>,
      <<"w","a","r","m","i","n","g"," ","u","p">>,
      <<"a","u","t","h"," ","p","e","n","d","i","n","g">>,
      <<"l","o","g","i","n"," ","r","e","q","u","i","r","e","d">>,
      <<"A","u","t","h","e","n","t","i","c","a","t","i","o","n"," ","r","e","q","u","i","r","e","d">>,
      <<"{","\"","u","s","e","r","\"",":">>,
      <<"[","1","]">>,
      <<"n","u","l","l">> }

ResourceTexts == PlainBodies \cup {RenderNetwork(n) \o <<"\n">> : n \in Networks}

ResourceOutputs == {SpawnError, InvalidUtf8Output} \cup {TextOutput(t) : t \in ResourceTexts}

ResourceAuthPhrases ==
    { <<"a","u","t","h","e","n","t","i","c","a","t","i","o","n">>,
      <<"a","u","t","h"," ","r","e","q","u","i","r","e","d">>,
      <<"n","o","t"," ","a","u","t","h","e","n","t","i","c","a","t","e","d">>,
      <<"p","l","e","a","s","e"," ","a","u","t","h","e","n","t","i","c","a","t","e">>,
      <<"l","o","g","i","n"," ","r","e","q","u","i","r","e","d">> }

transitional_responses ==
    { <<"n","o","t"," ","c","o","n","n","e","c","t","e","d">>,
      <<"o","f","f","l","i","n","e">>,
      <<"c","o","n","n","e","c","t","i","n","g">>,
      <<"a","u","t","h","e","n","t","i","c","a","t","i","n","g">>,
      <<"s","t","a","r","t","i","n","g">>,
      <<"i","n","i","t","i","a","l","i","z","i","n","g">>,
      <<"w","a","i","t","i","n","g">>,
      <<"l","o","a","d","i","n","g">>,
      <<"e","s","t","a","b","l","i","s","h","i","n","g">>,
      <<"h","a","n","d","s","h","a","k","i","n","g">>,
      <<"n","e","g","o","t","i","a","t","i","n","g">>,
      <<"n","o","t"," ","r","e","a","d","y">>,
      <<"u","n","a","v","a","i","l","a","b","l","e">> }

(***************************************************************************)
(* get_service_state: the status command's output to Result<ServiceState>. *)
(***************************************************************************)
get_service_state(out) ==
    IF ~out.spawned THEN [ok |-> FALSE, state |-> "none", err |-> Error("CommandExecutionError")]
    ELSE IF ~out.utf8 THEN [ok |-> FALSE, state |-> "none", err |-> Error("InvalidUtf8")]
    ELSE [ok |-> TRUE, state |-> from_status_output(out.stdout), err |-> NoError]

(***************************************************************************)
(* try_get_resources_data: the resources command's output to               *)
(* Result<Option<Network>>, check by check in the order of the code.       *)
(***************************************************************************)
\* try_get_resources_data without the test that the body looks like JSON
try_get_resources_data_NoJsonCheck(out) ==
    IF ~out.spawned THEN Fail(Error("CommandExecutionError"))
    ELSE IF ~out.utf8 THEN Fail(Error("InvalidUtf8"))
    ELSE LET trimmed_output == trim(out.stdout)
             lower == to_lowercase(trimmed_output)
         IN  IF trimmed_output = <<>> THEN Fail(Error("ServiceConnecting"))
             ELSE IF contains_any(lower, ResourceAuthPhrases)
                  THEN Fail(Error("AuthenticationRequired"))
             ELSE IF \E response \in transitional_responses :
                         eq_ignore_ascii_case(trimmed_output, response)
                  THEN Fail(Error("ServiceConnecting"))
             ELSE from_slice(trimmed_output)

try_get_resources_data(out) ==
    IF ~out.spawned THEN Fail(Error("CommandExecutionError"))
    ELSE IF ~out.utf8 THEN Fail(Error("InvalidUtf8"))
    ELSE LET trimmed_output == trim(out.stdout)
             lower == to_lowercase(trimmed_output)
         IN  IF trimmed_output = <<>> THEN Fail(Error("ServiceConnecting"))
             ELSE IF contains_any(lower, ResourceAuthPhrases)
                  THEN Fail(Error("AuthenticationRequired"))
             ELSE IF \E response \in transitional_responses :
                         eq_ignore_ascii_case(trimmed_output, response)
                  THEN Fail(Error("ServiceConnecting"))
             ELSE IF ~starts_with(trimmed_output, "{") /\ ~starts_with(trimmed_output, "[")
                  THEN IF contains(lower, kw_auth)
                       THEN Fail(Error("AuthenticationRequired"))
                       ELSE Fail(Error("ServiceConnecting"))
             ELSE from_slice(trimmed_output)

\* The two functions tabulated over the outputs the daemon may produce.
ServiceStateOf == [out \in StatusOutputs |-> get_service_state(out)]

ResourcesDataOf == [out \in ResourceOutputs |-> try_get_resources_data(out)]

(***************************************************************************)
(* ServiceStatus and AppState (state.rs).  An Instant is abstracted to     *)
(* whether more than the 30 s cache threshold has passed since it.         *)
(***************************************************************************)
StatusNotRunning == [tag |-> "NotRunning", url |-> <<>>]

StatusConnected == [tag |-> "Connected", url |-> <<>>]

Authenticating(url) == [tag |-> "Authenticating", url |-> url]

\* AppState::new
AppState_new ==
    [network |-> None, service_status |-> StatusNotRunning,
     last_update |-> None, refreshing |-> FALSE]

\* update_network with the status left as it was when the snapshot is None
update_network_KeepsStatus(s, network) ==
    LET has_data == network # None
    IN  [network |-> network,
         service_status |-> IF has_data THEN StatusConnected ELSE s.service_status,
         last_update |-> Some("fresh"),
         refreshing |-> FALSE]

\* AppState::update_network
update_network(s, network) ==
    LET has_data == network # None
    IN  [network |-> network,
         service_status |-> IF has_data THEN StatusConnected ELSE StatusNotRunning,
         last_update |-> Some("fresh"),
         refreshing |-> FALSE]

\* set_authenticating with the cached snapshot left in place
set_authenticating_KeepsNetwork(s, auth_url) ==
    [network |-> s.network,
     service_status |-> Authenticating(auth_url),
     last_update |-> Some("fresh"),
     refreshing |-> FALSE]

\* AppState::set_authenticating
set_authenticating(s, auth_url) ==
    [network |-> None,
     service_status |-> Authenticating(auth_url),
     last_update |-> Some("fresh"),
     refreshing |-> FALSE]

\* should_refresh as if every read of the cache asked for a refresh
should_refresh_Always(s) == TRUE

\* AppState::is_stale and AppState::should_refresh, for the 30 s threshold
is_stale(s) == s.last_update = None \/ s.last_update = Some("stale")

should_refresh(s) == ~s.refreshing /\ is_stale(s)

(***************************************************************************)
(* Constants of network.rs.                                                *)
(***************************************************************************)
MAX_RETRIES == 8

BASE_DELAY_MS == 1000

MAX_DELAY_MS == 10000

Min(a, b) == IF a < b THEN a ELSE b

(***************************************************************************)
(* Bounds of the model.                                                    *)
(***************************************************************************)
\* largest max_retries a caller of the fetcher passes
MaxRetriesArg == 8

\* concurrently running tasks
MaxTasks == 2

Tasks == 1..MaxTasks

VARIABLES
    app_state,  \* the AppState behind the Mutex
    last_write, \* history: the last transition function applied to app_state
    fetch,      \* per task: the frame of its get_network_data_with_retry call
    task,       \* per task: the flow it runs and where it is in it
    tray_menu,  \* the menu set on the tray icon, None before the icon is built
    auth,       \* per task: the frame of its handle_service_auth or start_resource_auth call
    lock,       \* the task that holds the MutexGuard of app_state, 0 when the mutex is free
    text_call   \* one call of a function over text: its argument, and its result once made

vars == <<app_state, last_write, fetch, task, tray_menu, auth, lock, text_call>>

(***************************************************************************)
(* The Mutex of AppState.  Every state.lock() of the flows, by the line of *)
(* the call, the line that closes the block or match arm the guard is a    *)
(* local of (where the guard is dropped), and the lines of the awaits of   *)
(* the enclosing async body.                                               *)
(***************************************************************************)
\* the awaits of handle_service_auth (auth.rs lines 95-439)
AuthAwaits ==
    {105, 140, 161, 181, 184, 229, 254, 271, 300, 326, 335, 364, 385, 405, 408}

\* the guard of rebuild_tray_after_delay as a local of the loop body
LockSites_LoopGuard ==
    [copy_read   |-> [lock |-> 37,  drop |-> 42,  awaits |-> {47}],
     copy_write  |-> [lock |-> 51,  drop |-> 53,  awaits |-> {47}],
     open_read   |-> [lock |-> 98,  drop |-> 103, awaits |-> {108}],
     open_write  |-> [lock |-> 112, drop |-> 114, awaits |-> {108}],
     rebuild     |-> [lock |-> 179, drop |-> 243, awaits |-> {162, 175, 207, 224}],
     setup_ok    |-> [lock |-> 406, drop |-> 432, awaits |-> {397, 402}],
     setup_err   |-> [lock |-> 441, drop |-> 473, awaits |-> {397, 402}],
     background  |-> [lock |-> 456, drop |-> 458, awaits |-> {448, 450}],
     tray_menu   |-> [lock |-> 163, drop |-> 165, awaits |-> {168, 170, 171}],
     auth_set_status   |-> [lock |-> 135, drop |-> 137, awaits |-> AuthAwaits],
     auth_clear_status |-> [lock |-> 191, drop |-> 193, awaits |-> AuthAwaits],
     auth_set    |-> [lock |-> 359, drop |-> 361, awaits |-> AuthAwaits],
     auth_clear  |-> [lock |-> 415, drop |-> 417, awaits |-> AuthAwaits]]

\* lib.rs (handle_copy_address, handle_open_in_browser, rebuild_tray_after_delay,
\* run's setup and its background retry), tray.rs (build_tray_menu) and
\* auth.rs (handle_service_auth)
LockSites ==
    [copy_read   |-> [lock |-> 37,  drop |-> 42,  awaits |-> {47}],
     copy_write  |-> [lock |-> 51,  drop |-> 53,  awaits |-> {47}],
     open_read   |-> [lock |-> 98,  drop |-> 103, awaits |-> {108}],
     open_write  |-> [lock |-> 112, drop |-> 114, awaits |-> {108}],
     rebuild     |-> [lock |-> 179, drop |-> 194, awaits |-> {162, 175, 207, 224}],
     setup_ok    |-> [lock |-> 406, drop |-> 432, awaits |-> {397, 402}],
     setup_err   |-> [lock |-> 441, drop |-> 473, awaits |-> {397, 402}],
     background  |-> [lock |-> 456, drop |-> 458, awaits |-> {448, 450}],
     tray_menu   |-> [lock |-> 163, drop |-> 165, awaits |-> {168, 170, 171}],
     auth_set_status   |-> [lock |-> 135, drop |-> 137, awaits |-> AuthAwaits],
     auth_clear_status |-> [lock |-> 191, drop |-> 193, awaits |-> AuthAwaits],
     auth_set    |-> [lock |-> 359, drop |-> 361, awaits |-> AuthAwaits],
     auth_clear  |-> [lock |-> 415, drop |-> 417, awaits |-> AuthAwaits]]

\* an await of the body lies in the scope of the guard
held_across_await(site) ==
    \E a \in site.awaits : site.lock < a /\ a < site.drop

\* state.lock().unwrap() by task t at a site: the mutex is free when the call
\* returns, and the guard lives to the end of its scope
Guard(t, site) ==
    /\ lock = 0
    /\ lock' = IF held_across_await(LockSites[site]) THEN t ELSE 0

(***************************************************************************)
(* The frame of a get_network_data_with_retry call: the locals of the      *)
(* code (max_retries, retry_count, delay_ms), the outputs the commands of  *)
(* the current iteration gave, and history: the iterations started, the    *)
(* delays slept, whether every status poll so far was transitional.  The   *)
(* history is kept for an observed call only.                              *)
(***************************************************************************)
IdleFrame ==
    [pc |-> "idle", max_retries |-> 0, retry_count |-> 0, delay_ms |-> 0,
     status_out |-> None, resources_out |-> None,
     attempts |-> 0, sleeps |-> <<>>, only_transitional |-> TRUE, result |-> None,
     observed |-> FALSE]

\* entry of get_network_data_with_retry: lines 158-159
StartFrame(max_retries) ==
    [IdleFrame EXCEPT !.pc = "status", !.max_retries = max_retries,
                      !.retry_count = 0, !.delay_ms = BASE_DELAY_MS]

Return(f, result) == [f EXCEPT !.pc = "returned", !.result = Some(result)]

IsTransitional(state) == state \in {"Starting", "Connecting"}

\* StatusArm with the status error returned at once, the resources fallback left out
StatusArm_NoFallback(g, r) ==
    IF ~r.ok THEN Return(g, Fail(r.err))
    ELSE IF r.state = "NotRunning" THEN Return(g, Ok(None))
    ELSE IF r.state = "AuthRequired" THEN Return(g, Fail(Error("AuthenticationRequired")))
    ELSE IF r.state = "Connected" THEN [g EXCEPT !.pc = "resources"]
    ELSE [g EXCEPT !.pc = "retry"]

\* StatusArm with NotRunning treated like Connected
StatusArm_NotRunningPolls(g, r) ==
    IF ~r.ok THEN [g EXCEPT !.pc = "resources"]
    ELSE IF r.state = "AuthRequired" THEN Return(g, Fail(Error("AuthenticationRequired")))
    ELSE IF r.state \in {"Connected", "NotRunning"} THEN [g EXCEPT !.pc = "resources"]
    ELSE [g EXCEPT !.pc = "retry"]

\* StatusArm with AuthRequired treated as one more transitional state
StatusArm_AuthRetries(g, r) ==
    IF ~r.ok THEN [g EXCEPT !.pc = "resources"]
    ELSE IF r.state = "NotRunning" THEN Return(g, Ok(None))
    ELSE IF r.state = "Connected" THEN [g EXCEPT !.pc = "resources"]
    ELSE [g EXCEPT !.pc = "retry"]

\* the match on get_service_state's result, first level: lines 168-178, 199-206
StatusArm(g, r) ==
    IF ~r.ok THEN [g EXCEPT !.pc = "resources"]
    ELSE IF r.state = "NotRunning" THEN Return(g, Ok(None))
    ELSE IF r.state = "AuthRequired" THEN Return(g, Fail(Error("AuthenticationRequired")))
    ELSE IF r.state = "Connected" THEN [g EXCEPT !.pc = "resources"]
    ELSE [g EXCEPT !.pc = "retry"]

\* one status poll at the top of the loop (line 168) and the arm it selects
StatusStep(f, out) ==
    LET r == ServiceStateOf[out]
        g == [f EXCEPT !.status_out = Some(out), !.resources_out = None,
                       !.attempts = @ + 1,
                       !.only_transitional = @ /\ r.ok /\ IsTransitional(r.state)]
    IN  StatusArm(g, r)

\* ResourcesArm with every error of the resources command absorbed into a retry
ResourcesArm_RetryAll(g, s, r) ==
    IF r.ok THEN Return(g, Ok(r.value))
    ELSE IF r.err.kind = "AuthenticationRequired"
         THEN Return(g, Fail(Error("AuthenticationRequired")))
    ELSE [g EXCEPT !.pc = "retry"]

\* ResourcesArm with ServiceConnecting returned like any other error
ResourcesArm_NoAbsorb(g, s, r) ==
    IF r.ok THEN Return(g, Ok(r.value))
    ELSE IF r.err.kind = "AuthenticationRequired"
         THEN Return(g, Fail(Error("AuthenticationRequired")))
    ELSE IF s.ok THEN Return(g, Fail(r.err))
    ELSE Return(g, Fail(s.err))

\* the match on try_get_resources_data's result: lines 180-197 when the status
\* was Connected (s.ok), lines 206-224 when the status command failed
ResourcesArm(g, s, r) ==
    IF r.ok THEN Return(g, Ok(r.value))
    ELSE IF r.err.kind = "AuthenticationRequired"
         THEN Return(g, Fail(Error("AuthenticationRequired")))
    ELSE IF r.err.kind = "ServiceConnecting" THEN [g EXCEPT !.pc = "retry"]
    ELSE IF s.ok THEN Return(g, Fail(r.err))
    ELSE Return(g, Fail(s.err))

\* the resources command of an iteration (lines 180, 206) and the arm it selects
ResourcesStep(f, out) ==
    ResourcesArm([f EXCEPT !.resources_out = Some(out)],
                 ServiceStateOf[f.status_out[1]], ResourcesDataOf[out])

\* NextDelay without the cap
NextDelay_NoCap(delay_ms) == delay_ms * 2

\* line 243
NextDelay(delay_ms) == Min(delay_ms * 2, MAX_DELAY_MS)

\* the end of an iteration: its command outputs are dropped
EndIteration(f) == [f EXCEPT !.status_out = None, !.resources_out = None]

\* RetryStep with the exhaustion check off by one
RetryStep_OffByOne(f) ==
    IF f.retry_count > f.max_retries
    THEN Return(EndIteration(f), Fail(RetryLimitExceeded(f.max_retries + 1)))
    ELSE [EndIteration(f) EXCEPT !.pc = "status",
                                 !.sleeps = Append(@, f.delay_ms),
                                 !.retry_count = @ + 1,
                                 !.delay_ms = NextDelay(@)]

\* the exhaustion check, the sleep and the counters: lines 229-243
RetryStep(f) ==
    IF f.retry_count >= f.max_retries
    THEN Return(EndIteration(f), Fail(RetryLimitExceeded(f.max_retries + 1)))
    ELSE [EndIteration(f) EXCEPT !.pc = "status",
                                 !.sleeps = Append(@, f.delay_ms),
                                 !.retry_count = @ + 1,
                                 !.delay_ms = NextDelay(@)]

\* what a frame keeps of an iteration when its call is not observed: the
\* locals of the code, and the status result while the fallback may need it
DropHistory(f) ==
    IF f.observed THEN f
    ELSE [f EXCEPT !.status_out = IF f.pc = "resources" THEN @ ELSE None,
                   !.resources_out = None,
                   !.attempts = 0, !.sleeps = <<>>, !.only_transitional = TRUE]

(***************************************************************************)
(* The fetcher's steps, one per suspension point of the loop.              *)
(***************************************************************************)
FetchStatus(t) ==
    /\ fetch[t].pc = "status"
    /\ \E out \in StatusOutputs : fetch' = [fetch EXCEPT ![t] = DropHistory(StatusStep(@, out))]
    /\ UNCHANGED <<app_state, last_write, task, tray_menu, auth, lock, text_call>>

FetchResources(t) ==
    /\ fetch[t].pc = "resources"
    /\ \E out \in ResourceOutputs : fetch' = [fetch EXCEPT ![t] = DropHistory(ResourcesStep(@, out))]
    /\ UNCHANGED <<app_state, last_write, task, tray_menu, auth, lock, text_call>>

FetchRetry(t) ==
    /\ fetch[t].pc = "retry"
    /\ fetch' = [fetch EXCEPT ![t] = DropHistory(RetryStep(@))]
    /\ UNCHANGED <<app_state, last_write, task, tray_menu, auth, lock, text_call>>

FetchNext == \E t \in Tasks : FetchStatus(t) \/ FetchResources(t) \/ FetchRetry(t)

NoWrite == [op |-> "none", network |-> None, url |-> <<>>, prior |-> "none"]

\* A task: the flow it runs and where it is in it, the locals of the flow,
\* and whether the fetch it has just made reported AuthenticationRequired
IdleTask ==
    [pc |-> "idle", retry_count |-> 0, network_data |-> None, auth_url |-> <<>>,
     auth_required |-> FALSE]

\* no URL has been found
NotFound == [attempt |-> 0, source |-> "none", text |-> <<>>]

\* The frame of a handle_service_auth or start_resource_auth call: the
\* locals of the code (attempt, the index of the auth command, auth_url, the seconds since wait_for_service_ready started), the
\* menu the tray showed when the browser was opened, and history kept for an
\* observed call: the side effects in their order, whether the first status
\* text said "authenticating", where the URL was found,
\* the 1.5 s sleeps, what the last poll of the wait saw, the result of the
\* wait, what the fetches of start_resource_auth returned, whether the command
\* of the last step wrote bytes that are not UTF-8 to a stream the call decodes.
AuthIdle ==
    [pc |-> "idle", flow |-> "none", attempt |-> 0, cmd |-> 0, auth_url |-> None,
     resource |-> None, timeout |-> 0, elapsed |-> 0, result |-> None,
     menu_at_open |-> "none", observed |-> FALSE,
     events |-> <<>>, found |-> NotFound, sleeps |-> 0,
     said_authenticating |-> FALSE, last_poll |-> "none", wait_result |-> None,
     fetched |-> None, verified |-> None, invalid_utf8_seen |-> FALSE]

\* no function over text is being followed
NoCall ==
    [fn |-> "none", parts |-> None, text |-> <<>>, patterns |-> <<>>, result |-> None]

(***************************************************************************)
(* SpecFetch: one call of get_network_data_with_retry, with any budget up  *)
(* to MaxRetriesArg, against a daemon that may answer anything at each     *)
(* poll.                                                                   *)
(***************************************************************************)
InitFetch ==
    /\ app_state = AppState_new
    /\ last_write = NoWrite
    /\ task = [t \in Tasks |-> IdleTask]
    /\ tray_menu = None
    /\ auth = [t \in Tasks |-> AuthIdle]
    /\ lock = 0
    /\ text_call = NoCall
    /\ \E n \in 0..MaxRetriesArg :
           fetch = [t \in Tasks |->
                        IF t = 1 THEN [StartFrame(n) EXCEPT !.observed = TRUE]
                        ELSE IdleFrame]

SpecFetch == InitFetch /\ [][FetchNext]_vars

(***************************************************************************)
(* URL extraction (utils.rs).  URL_REGEX is https?://[^\s\)\]\}<>,]+ ; a   *)
(* match is the leftmost one, as long as it can be.                        *)
(***************************************************************************)
\* the characters the class [^\s\)\]\}<>,] excludes
UrlStops == {" ", "\n", "\t", "\r", ")", "]", "}", "<", ">", ","}

HasPrefixAt(s, i, p) == i + Len(p) - 1 <= Len(s) /\ SubSeq(s, i, i + Len(p) - 1) = p

\* the length of "https://" or "http://" at position i, 0 when neither is there
SchemeAt(s, i) ==
    IF HasPrefixAt(s, i, <<"h","t","t","p","s",":","/","/">>) THEN 8
    ELSE IF HasPrefixAt(s, i, <<"h","t","t","p",":","/","/">>) THEN 7
    ELSE 0

\* the positions at which the regex matches: a scheme and one more character
MatchStarts(s) ==
    {i \in 1..Len(s) :
        /\ SchemeAt(s, i) > 0
        /\ i + SchemeAt(s, i) <= Len(s)
        /\ s[i + SchemeAt(s, i)] \notin UrlStops}

\* the last position of the run of class characters that starts at j
RunEnd(s, j) ==
    LET stops == {k \in j..Len(s) : s[k] \in UrlStops}
    IN  IF stops = {} THEN Len(s)
        ELSE (CHOOSE k \in stops : \A m \in stops : k <= m) - 1

\* Regex::find: the leftmost match, None when there is none
regex_find(s) ==
    IF MatchStarts(s) = {} THEN None
    ELSE LET i == CHOOSE k \in MatchStarts(s) : \A m \in MatchStarts(s) : k <= m
         IN  Some(SubSeq(s, i, RunEnd(s, i + SchemeAt(s, i))))

\* str::trim_end_matches for a set of characters
trim_end_matches(s, chars) ==
    LET keep == {i \in 1..Len(s) : s[i] \notin chars}
    IN  IF keep = {} THEN <<>>
        ELSE SubSeq(s, 1, CHOOSE i \in keep : \A j \in keep : j <= i)

\* extract_url_from_text: the first match, kept when it is longer than 10,
\* with its trailing punctuation and then its trailing quotes removed
extract_url_from_text(text) ==
    LET m == regex_find(text)
    IN  IF m = None \/ ~(Len(m[1]) > 10) THEN None
        ELSE Some(trim_end_matches(trim_end_matches(m[1], {".", ",", ")", "]", "}"}),
                                   {"\""}))

\* str::find: the first position of pat in s, 0 when it does not occur
find(s, pat) ==
    LET at == {i \in 1..(Len(s) - Len(pat) + 1) : SubSeq(s, i, i + Len(pat) - 1) = pat}
    IN  IF at = {} THEN 0 ELSE CHOOSE i \in at : \A j \in at : i <= j

\* the URL found after pattern number k or a later one, None when none is
RECURSIVE UrlAfterPattern(_, _, _)
UrlAfterPattern(text, patterns, k) ==
    IF k > Len(patterns) THEN None
    ELSE LET pattern_pos == find(to_lowercase(text), patterns[k])
             search_start == pattern_pos + Len(patterns[k])
             url == IF pattern_pos > 0 /\ search_start <= Len(text)
                    THEN extract_url_from_text(SubSeq(text, search_start, Len(text)))
                    ELSE None
         IN  IF url # None THEN url ELSE UrlAfterPattern(text, patterns, k + 1)

\* extract_url_with_pattern: a URL after one of the patterns, tried in order,
\* and failing that any URL of the text
extract_url_with_pattern(text, patterns) ==
    LET url == UrlAfterPattern(text, patterns, 1)
    IN  IF url # None THEN url ELSE extract_url_from_text(text)

(***************************************************************************)
(* The application's tasks (lib.rs, auth.rs).  Every write of AppState is  *)
(* one lock acquisition and so one step; a task gives way to the others    *)
(* at each await.  A task is a slot of the pool: a spawn takes a free      *)
(* slot, and a task that spawns as its last statement continues as the     *)
(* task it spawned.                                                        *)
(***************************************************************************)
\* lib.rs: const MAX_REBUILD_RETRIES
MAX_REBUILD_RETRIES == 3

Task(pc) == [IdleTask EXCEPT !.pc = pc]

\* the fetch of a task has returned Err(AuthenticationRequired)
Reported(r) == ~r.ok /\ r.err.kind = "AuthenticationRequired"

FreeSlots == {u \in Tasks : task[u].pc = "idle"}

\* the frames one step of the loop leads to, over the answers of the daemon
FrameNext(f) ==
    IF f.pc = "status"
    THEN {DropHistory(StatusStep(f, out)) : out \in StatusOutputs}
    ELSE IF f.pc = "resources"
    THEN {DropHistory(ResourcesStep(f, out)) : out \in ResourceOutputs}
    ELSE IF f.pc = "retry" THEN {DropHistory(RetryStep(f))}
    ELSE {}

RECURSIVE Frames(_)
Frames(S) ==
    LET T == S \cup UNION {FrameNext(f) : f \in S}
    IN  IF T = S THEN S ELSE Frames(T)

\* the values a call of get_network_data_with_retry may return to a task.
\* The call touches nothing but its own frame, so a task takes it as one step.
get_network_data_with_retry(max_retries) ==
    {f.result[1] : f \in {g \in Frames({StartFrame(max_retries)}) : g.pc = "returned"}}

\* get_network_data: network.rs lines 153-155
get_network_data == get_network_data_with_retry(MAX_RETRIES)

\* the fetch of run's setup and the one of its background retry
startup_fetch == get_network_data_with_retry(10)

background_fetch == get_network_data_with_retry(5)

\* state_guard.update_network(network) under the lock
WriteNetwork(t, site, network) ==
    /\ Guard(t, site)
    /\ app_state' = update_network(app_state, network)
    /\ last_write' = [op |-> "update_network", network |-> network, url |-> <<>>,
                      prior |-> app_state.service_status.tag]

\* state_guard.set_authenticating(url) under the lock
WriteAuthenticating(t, site, url) ==
    /\ Guard(t, site)
    /\ app_state' = set_authenticating(app_state, url)
    /\ last_write' = [op |-> "set_authenticating", network |-> None, url |-> url,
                      prior |-> app_state.service_status.tag]

\* tray.rs build_tray_menu: the status is read under the lock, the snapshot
\* is the caller's
build_tray_menu(s, network_data) ==
    IF s.service_status.tag = "Authenticating"
    THEN [menu |-> "authenticating", network |-> None, url |-> s.service_status.url]
    ELSE IF network_data # None
    THEN [menu |-> "connected", network |-> network_data, url |-> <<>>]
    ELSE [menu |-> "disconnected", network |-> None, url |-> <<>>]

MenuShown(kind) == tray_menu # None /\ tray_menu[1].menu = kind

(***************************************************************************)
(* run's setup (lib.rs): the first fetch with 10 retries, the first write, *)
(* the background retry it schedules on failure, the tray icon.            *)
(***************************************************************************)
StartupWrite(t) ==
    /\ task[t].pc = "startup"
    /\ \E r \in startup_fetch :
           IF r.ok
           THEN /\ WriteNetwork(t, "setup_ok", r.value)
                /\ task' = [task EXCEPT
                       ![t] = [Task("startup_tray") EXCEPT !.network_data = r.value]]
           ELSE /\ WriteNetwork(t, "setup_err", None)
                /\ \E u \in FreeSlots :
                       task' = [task EXCEPT
                           ![t] = [Task("startup_tray") EXCEPT
                                       !.auth_required = Reported(r)],
                           ![u] = Task("bg_sleep")]
    /\ UNCHANGED <<fetch, tray_menu, auth, text_call>>

StartupTray(t) ==
    /\ task[t].pc = "startup_tray"
    /\ Guard(t, "tray_menu")
    /\ tray_menu' = Some(build_tray_menu(app_state, task[t].network_data))
    /\ task' = [task EXCEPT ![t] = IdleTask]
    /\ UNCHANGED <<app_state, last_write, fetch, auth, text_call>>

\* the background retry: 5 s later, a fetch with 5 retries
BgRetry(t) ==
    /\ task[t].pc = "bg_sleep"
    /\ \E r \in background_fetch :
           IF r.ok /\ r.value # None
           THEN /\ WriteNetwork(t, "background", r.value)
                /\ task' = [task EXCEPT ![t] = Task("rebuild")]
           ELSE /\ task' = [task EXCEPT
                       ![t] = [IdleTask EXCEPT !.auth_required = Reported(r)]]
                /\ UNCHANGED <<app_state, last_write, lock>>
    /\ UNCHANGED <<fetch, tray_menu, auth, text_call>>

(***************************************************************************)
(* rebuild_tray_after_delay (lib.rs).                                      *)
(***************************************************************************)
\* one pass of the loop, the fetch giving one of `results`
RebuildWith(t, results) ==
    /\ task[t].pc = "rebuild"
    /\ \E r \in results :
           IF r.ok
           THEN /\ WriteNetwork(t, "rebuild", r.value)
                /\ task' = [task EXCEPT
                       ![t] = [Task("rebuild_tray") EXCEPT !.network_data = r.value]]
           ELSE /\ UNCHANGED <<app_state, last_write, lock>>
                /\ IF /\ r.err.kind \in {"ServiceConnecting", "AuthenticationRequired"}
                      /\ task[t].retry_count < MAX_REBUILD_RETRIES
                   THEN task' = [task EXCEPT ![t].retry_count = @ + 1,
                                             ![t].auth_required = Reported(r)]
                   ELSE task' = [task EXCEPT
                            ![t] = [Task("rebuild_tray") EXCEPT
                                        !.auth_required = Reported(r)]]
    /\ UNCHANGED <<fetch, tray_menu, auth, text_call>>

RebuildFetch(t) == RebuildWith(t, get_network_data)

\* the menu is set on the tray icon when the icon exists
RebuildTray(t) ==
    /\ task[t].pc = "rebuild_tray"
    /\ Guard(t, "tray_menu")
    /\ tray_menu' = IF tray_menu = None THEN None
                    ELSE Some(build_tray_menu(app_state, task[t].network_data))
    /\ task' = [task EXCEPT ![t] = IdleTask]
    /\ UNCHANGED <<app_state, last_write, fetch, auth, text_call>>

(***************************************************************************)
(* handle_copy_address and handle_open_in_browser (lib.rs): the same       *)
(* steps, a refresh of the cache when it is older than 30 s.               *)
(***************************************************************************)
ClickResource(t) ==
    /\ t \in FreeSlots
    /\ \E site \in {"copy_read", "open_read"} : Guard(t, site)
    /\ MenuShown("connected")
    /\ tray_menu[1].network[1].resources # <<>>
    /\ task' = [task EXCEPT
           ![t] = IF should_refresh(app_state) THEN Task("refresh")
                  ELSE [Task("use_network") EXCEPT !.network_data = app_state.network]]
    /\ UNCHANGED <<app_state, last_write, fetch, tray_menu, auth, text_call>>

Refresh(t) ==
    /\ task[t].pc = "refresh"
    /\ \E r \in get_network_data :
           IF r.ok
           THEN /\ \E site \in {"copy_write", "open_write"} : WriteNetwork(t, site, r.value)
                /\ task' = [task EXCEPT
                       ![t] = [Task("use_network") EXCEPT !.network_data = r.value]]
           ELSE /\ task' = [task EXCEPT
                       ![t] = [IdleTask EXCEPT !.auth_required = Reported(r)]]
                /\ UNCHANGED <<app_state, last_write, lock>>
    /\ UNCHANGED <<fetch, tray_menu, auth, text_call>>

\* the lookup of the resource, then the clipboard or the browser
UseNetwork(t) ==
    /\ task[t].pc = "use_network"
    /\ task' = [task EXCEPT ![t] = IdleTask]
    /\ UNCHANGED <<app_state, last_write, fetch, tray_menu, auth, lock, text_call>>

(***************************************************************************)
(* handle_service_auth and start_resource_auth (auth.rs): the frame of one *)
(* call, and its steps as functions of the frame and of what the command   *)
(* of the step printed.                                                    *)
(***************************************************************************)
AUTH_RETRY_ATTEMPTS == 10

AUTH_STATUS_CHECK_DELAY_MS == 500

AUTH_TIMEOUT_SECONDS == 120

\* handle_service_auth: let max_attempts = 8
max_attempts == 8

\* the phrases of the first status check, auth.rs lines 112-116
AuthRequiredPhrases ==
    { <<"a","u","t","h","e","n","t","i","c","a","t","i","o","n"," ","i","s"," ","r","e","q","u","i","r","e","d">>,
      <<"a","u","t","h"," ","r","e","q","u","i","r","e","d">>,
      <<"n","o","t"," ","a","u","t","h","e","n","t","i","c","a","t","e","d">>,
      <<"u","s","e","r"," ","a","u","t","h","e","n","t","i","c","a","t","i","o","n"," ","i","s"," ","r","e","q","u","i","r","e","d">>,
      <<"a","u","t","h","e","n","t","i","c","a","t","i","n","g">> }

kw_authenticating == <<"a","u","t","h","e","n","t","i","c","a","t","i","n","g">>

\* the patterns of the resources output and of the auth commands' output
ListingPatterns ==
    << <<"v","i","s","i","t",":">>,
       <<"g","o"," ","t","o",":">>,
       <<"o","p","e","n",":">>,
       <<"n","a","v","i","g","a","t","e"," ","t","o",":">>,
       <<"v","i","s","i","t"," ">>,
       <<"g","o"," ","t","o"," ">>,
       <<"b","r","o","w","s","e"," ","t","o",":">>,
       <<"a","u","t","h","e","n","t","i","c","a","t","e"," ","a","t",":">>,
       <<"l","o","g","i","n"," ","a","t",":">> >>

CommandPatterns ==
    << <<"v","i","s","i","t",":">>,
       <<"g","o"," ","t","o",":">>,
       <<"o","p","e","n",":">>,
       <<"n","a","v","i","g","a","t","e"," ","t","o",":">>,
       <<"v","i","s","i","t"," ">>,
       <<"g","o"," ","t","o"," ">>,
       <<"b","r","o","w","s","e"," ","t","o",":">> >>

\* vec!["status"], ["status", "--json"], ["auth"], ["auth", "--help"]
auth_commands == 4

\* Result<()>
OkUnit == Ok(None)

\* what `twingate status` may print while an authentication is pending
AuthStatusTexts ==
    { <<"o","n","l","i","n","e">>,
      <<"a","u","t","h","e","n","t","i","c","a","t","i","o","n"," ","i","s"," ","r","e","q","u","i","r","e","d">>,
      <<"A","u","t","h","e","n","t","i","c","a","t","i","n","g">>,
      <<"A","u","t","h","e","n","t","i","c","a","t","i","n","g",":"," ","h","t","t","p","s",":","/","/","t","g",".","e","x","a","m","p","l","e","/","a","u","t","h","?","c","=","1">>,
      <<"a","u","t","h","e","n","t","i","c","a","t","i","n","g"," ","h","t","t","p","s",":","/","/","a",".","i","o","/","x","1">> }

AuthStatusOutputs == {SpawnError, InvalidUtf8Output} \cup {TextOutput(t) : t \in AuthStatusTexts}

\* what `twingate resources list` may print then
ListingTexts ==
    { <<>>,
      <<"n","o"," ","r","e","s","o","u","r","c","e","s">>,
      <<"v","i","s","i","t",":"," ","h","t","t","p","s",":","/","/","t","g",".","e","x","a","m","p","l","e","/","a","u","t","h","?","c","=","1">>,
      <<"L","o","g","i","n"," ","a","t",":"," ","h","t","t","p","s",":","/","/","a",".","i","o","/","x","1",".">> }

ListingOutputs == {SpawnError, InvalidUtf8Output} \cup {TextOutput(t) : t \in ListingTexts}

\* the output of an auth command: stdout, and stderr (taken as "" when it is
\* not UTF-8)
CommandOutput(spawned, utf8, stdout, stderr_utf8, stderr) ==
    [spawned |-> spawned, utf8 |-> utf8, stdout |-> stdout,
     stderr_utf8 |-> stderr_utf8, stderr |-> stderr]

AuthCommandOutputs ==
    { CommandOutput(FALSE, TRUE, <<>>, TRUE, <<>>),
      CommandOutput(TRUE, FALSE, <<>>, TRUE, <<>>),
      CommandOutput(TRUE, TRUE, <<>>, TRUE, <<>>),
      CommandOutput(TRUE, TRUE, <<"g","o"," ","t","o"," ","h","t","t","p","s",":","/","/","t","g",".","e","x","a","m","p","l","e","/","a","u","t","h","?","c","=","2","\n">>, TRUE, <<>>),
      CommandOutput(TRUE, TRUE, <<"u","s","a","g","e">>, TRUE, <<"o","p","e","n",":"," ","h","t","t","p","s",":","/","/","a",".","i","o","/","x","1">>),
      CommandOutput(TRUE, TRUE, <<"u","s","a","g","e">>, FALSE, <<"o","p","e","n",":"," ","h","t","t","p","s",":","/","/","a",".","i","o","/","x","1">>) }

\* the text of the error a JsonError or a CommandExecutionError wraps
SourceMessages ==
    { <<"e","x","p","e","c","t","e","d"," ","v","a","l","u","e"," ","a","t"," ","l","i","n","e"," ","1"," ","c","o","l","u","m","n"," ","1">>,
      <<"i","n","v","a","l","i","d"," ","t","y","p","e",":"," ","s","t","r","i","n","g"," ","\"","h","t","t","p","s",":","/","/","t","g",".","e","x","a","m","p","l","e","/","a","u","t","h","?","c","=","2","\"",","," ","e","x","p","e","c","t","e","d"," ","s","t","r","u","c","t"," ","U","s","e","r"," ","a","t"," ","l","i","n","e"," ","1"," ","c","o","l","u","m","n"," ","3","8">>,
      <<"i","n","v","a","l","i","d"," ","t","y","p","e",":"," ","s","t","r","i","n","g"," ","\"","h","t","t","p","s",":","/","/","a",".","i","o","/","x","1","\"",","," ","e","x","p","e","c","t","e","d"," ","s","t","r","u","c","t"," ","U","s","e","r">> }

RECURSIVE Decimal(_)
Decimal(n) ==
    LET digit == <<"0","1","2","3","4","5","6","7","8","9">>[(n % 10) + 1]
    IN  IF n < 10 THEN <<digit>> ELSE Decimal(n \div 10) \o <<digit>>

\* Display of TwingateError (error.rs), for the errors a fetch returns
to_string(e, source) ==
    CASE e.kind = "ServiceNotRunning" -> <<"T","w","i","n","g","a","t","e"," ","s","e","r","v","i","c","e"," ","i","s"," ","n","o","t"," ","r","u","n","n","i","n","g">>
      [] e.kind = "ServiceConnecting" -> <<"S","e","r","v","i","c","e"," ","i","s"," ","c","o","n","n","e","c","t","i","n","g"," ","t","o"," ","T","w","i","n","g","a","t","e"," ","n","e","t","w","o","r","k">>
      [] e.kind = "AuthenticationRequired" -> <<"S","e","r","v","i","c","e"," ","r","e","q","u","i","r","e","s"," ","a","u","t","h","e","n","t","i","c","a","t","i","o","n">>
      [] e.kind = "InvalidUtf8" -> <<"I","n","v","a","l","i","d"," ","U","T","F","-","8"," ","i","n"," ","c","o","m","m","a","n","d"," ","o","u","t","p","u","t">>
      [] e.kind = "RetryLimitExceeded" ->
             <<"O","p","e","r","a","t","i","o","n"," ","t","i","m","e","d"," ","o","u","t"," ","a","f","t","e","r"," ">> \o Decimal(e.n) \o <<" ","a","t","t","e","m","p","t","s">>
      [] e.kind = "JsonError" -> <<"J","S","O","N"," ","d","e","s","e","r","i","a","l","i","z","a","t","i","o","n"," ","f","a","i","l","e","d",":"," ">> \o source
      [] e.kind = "CommandExecutionError" -> <<"C","o","m","m","a","n","d"," ","e","x","e","c","u","t","i","o","n"," ","e","r","r","o","r",":"," ">> \o source
      [] OTHER -> <<>>

\* the seconds a status command may take beyond the second a poll sleeps
MaxCommandSecs == 1

AuthenticationTimeout(seconds) == [kind |-> "AuthenticationTimeout", n |-> seconds]

\* entry of handle_service_auth
StartServiceAuth == [AuthIdle EXCEPT !.pc = "status", !.flow = "service"]

AuthReturn(a, result) == [a EXCEPT !.pc = "returned", !.result = Some(result)]

Event(a, e) == [a EXCEPT !.events = Append(@, e)]

Found(a, url, source, text) ==
    [a EXCEPT !.auth_url = url,
              !.found = [attempt |-> a.attempt, source |-> source, text |-> text]]

\* after the loop: lines 331-353
AfterLoop(a) ==
    IF a.auth_url = None
    THEN Event([a EXCEPT !.pc = "final_fetch"], "no URL after all attempts")
    ELSE [a EXCEPT !.pc = "set"]

\* the loop test as if one more attempt were allowed
LoopHead_OneMore(a) ==
    IF a.attempt < max_attempts + 1 /\ a.auth_url = None
    THEN [a EXCEPT !.pc = "loop_status", !.attempt = @ + 1, !.cmd = 0]
    ELSE AfterLoop(a)

\* while attempt < max_attempts && auth_url.is_none(): lines 220-221
LoopHead(a) ==
    IF a.attempt < max_attempts /\ a.auth_url = None
    THEN [a EXCEPT !.pc = "loop_status", !.attempt = @ + 1, !.cmd = 0]
    ELSE AfterLoop(a)

\* the end of an attempt: the 1.5 s sleep of lines 323-327, then the loop test
EndAttempt(a) ==
    LoopHead(IF a.auth_url = None /\ a.attempt < max_attempts
             THEN [a EXCEPT !.sleeps = @ + 1] ELSE a)

\* the URL of a status text: only when the text says "authenticating", and
\* only a URL longer than 20 (lines 125-129 and 234-243)
StatusUrl(text) ==
    LET url == IF contains(to_lowercase(text), kw_authenticating)
               THEN extract_url_from_text(text) ELSE None
    IN  IF url # None /\ Len(url[1]) > 20 THEN url ELSE None

\* AuthStateManager::is_auth_required, and the auth_required of
\* handle_service_auth, which is the same expression
is_auth_required(status_output) ==
    contains_any(to_lowercase(status_output), AuthRequiredPhrases)

\* the first status check: lines 101-213
FirstStatusStep(a, out) ==
    IF ~out.spawned THEN AuthReturn(a, Fail(Error("CommandExecutionError")))
    ELSE IF ~out.utf8 THEN AuthReturn(a, Fail(Error("InvalidUtf8")))
    ELSE LET b == [a EXCEPT !.said_authenticating =
                                contains(to_lowercase(out.stdout), kw_authenticating)]
         IN  IF ~is_auth_required(out.stdout)
             THEN AuthReturn(b, OkUnit)
             ELSE IF StatusUrl(out.stdout) # None
             THEN [Found(b, StatusUrl(out.stdout), "status", out.stdout) EXCEPT !.pc = "set"]
             ELSE LoopHead(b)

\* the status check of an attempt: lines 224-248
LoopStatusStep(a, out) ==
    IF ~out.spawned THEN AuthReturn(a, Fail(Error("CommandExecutionError")))
    ELSE IF ~out.utf8 THEN AuthReturn(a, Fail(Error("InvalidUtf8")))
    ELSE IF StatusUrl(out.stdout) # None
    THEN AfterLoop(Found(a, StatusUrl(out.stdout), "status", out.stdout))
    ELSE IF a.attempt = 1 THEN [a EXCEPT !.pc = "loop_fetch"]
    ELSE [a EXCEPT !.pc = "loop_resources"]

\* the fetch of the first attempt: lines 251-263
LoopFetchStep(a, r) ==
    IF r.ok THEN AuthReturn(a, OkUnit) ELSE [a EXCEPT !.pc = "loop_resources"]

\* `twingate resources list` as if the whole text were taken for the URL
LoopResourcesStep_WholeText(a, out) ==
    IF ~out.spawned THEN AuthReturn(a, Fail(Error("CommandExecutionError")))
    ELSE IF ~out.utf8 THEN AuthReturn(a, Fail(Error("InvalidUtf8")))
    ELSE LET url == extract_url_with_pattern(out.stdout, ListingPatterns)
         IN  IF url # None
             THEN EndAttempt(Found(a, Some(out.stdout), "resources", out.stdout))
             ELSE [a EXCEPT !.pc = "loop_commands", !.cmd = 1]

\* `twingate resources list`: lines 266-281
LoopResourcesStep(a, out) ==
    IF ~out.spawned THEN AuthReturn(a, Fail(Error("CommandExecutionError")))
    ELSE IF ~out.utf8 THEN AuthReturn(a, Fail(Error("InvalidUtf8")))
    ELSE LET url == extract_url_with_pattern(out.stdout, ListingPatterns)
         IN  IF url # None THEN EndAttempt(Found(a, url, "resources", out.stdout))
             ELSE [a EXCEPT !.pc = "loop_commands", !.cmd = 1]

\* one auth command of the for loop: lines 294-319
LoopCommandStep(a, out) ==
    IF ~out.spawned THEN AuthReturn(a, Fail(Error("CommandExecutionError")))
    ELSE IF ~out.utf8 THEN AuthReturn(a, Fail(Error("InvalidUtf8")))
    ELSE LET auth_err == IF out.stderr_utf8 THEN out.stderr ELSE <<>>
             combined_output == out.stdout \o <<"\n">> \o auth_err
             url == extract_url_with_pattern(combined_output, CommandPatterns)
         IN  IF url # None THEN EndAttempt(Found(a, url, "command", combined_output))
             ELSE IF a.cmd < auth_commands THEN [a EXCEPT !.cmd = @ + 1]
             ELSE EndAttempt(a)

\* the fetch after the loop and the URL of its error message: lines 331-351,
\* and the not-found outcome of lines 430-438
FinalFetchStep(a, r, source) ==
    IF r.ok THEN AuthReturn(a, OkUnit)
    ELSE LET url == extract_url_from_text(to_string(r.err, source))
         IN  IF url # None THEN [Found(a, url, "error", to_string(r.err, source)) EXCEPT !.pc = "set"]
             ELSE AuthReturn(a, OkUnit)

\* set_authenticating has been called: lines 356-361 (131-137)
SetStep(a) == Event([a EXCEPT !.pc = "tray"], "set_authenticating")

\* rebuild_tray_for_auth_state has run; its error is only logged: lines 363-366
TrayStep(a) == Event([a EXCEPT !.pc = "open"], "rebuild_tray_for_auth_state")

\* tauri_plugin_opener::open_url: lines 369-374, with the menu the tray shows
OpenStep(a, opened, menu) ==
    IF opened THEN Event([a EXCEPT !.pc = "settle", !.menu_at_open = menu], "open_url")
    ELSE Event([a EXCEPT !.pc = "xdg_open", !.menu_at_open = menu], "open_url failed")

\* the outcomes of the xdg-open fallback: it ran, it exited non-zero, it could
\* not be spawned
XdgOutcomes == {"xdg-open", "xdg-open failed", "xdg-open spawn error"}

\* the xdg-open fallback as if its failure ended the flow with an error
XdgOpenStep_FailsHard(a, outcome) ==
    IF outcome = "xdg-open" THEN Event([a EXCEPT !.pc = "settle"], outcome)
    ELSE AuthReturn(Event(a, outcome), Fail(Error("CommandExecutionError")))

\* the xdg-open fallback, whatever it gives: lines 375-401
XdgOpenStep(a, outcome) == Event([a EXCEPT !.pc = "settle"], outcome)

\* the 3 s pause and the entry of wait_for_service_ready: lines 404-408
SettleStep(a) ==
    Event([a EXCEPT !.pc = "wait", !.timeout = AUTH_TIMEOUT_SECONDS, !.elapsed = 0],
          "sleep 3000")

\* the return of wait_for_service_ready as if handle_service_auth asked for
\* the tray rebuild without clearing the state first
WaitReturn_SkipClear(a, r) ==
    LET b == [a EXCEPT !.wait_result = Some(r), !.elapsed = 0, !.timeout = 0]
    IN  IF a.flow = "service"
        THEN IF r.ok THEN [b EXCEPT !.pc = "spawn"] ELSE AuthReturn(b, OkUnit)
        ELSE IF r.ok THEN [b EXCEPT !.pc = "verify"] ELSE AuthReturn(b, Fail(r.err))

\* what the caller of wait_for_service_ready does with its result:
\* the return of wait_for_service_ready as if handle_service_auth passed
\* the timeout on to its caller
WaitReturn_TimeoutFails(a, r) ==
    LET b == [a EXCEPT !.wait_result = Some(r), !.elapsed = 0, !.timeout = 0]
    IN  IF a.flow = "service"
        THEN IF r.ok THEN [b EXCEPT !.pc = "clear"] ELSE AuthReturn(b, Fail(r.err))
        ELSE IF r.ok THEN [b EXCEPT !.pc = "verify"] ELSE AuthReturn(b, Fail(r.err))

\* handle_service_auth lines 408-428, wait_for_auth_completion lines 488-513.
\* The locals of wait_for_service_ready end with it.
WaitReturn(a, r) ==
    LET b == [a EXCEPT !.wait_result = Some(r), !.elapsed = 0, !.timeout = 0]
    IN  IF a.flow = "service"
        THEN IF r.ok THEN [b EXCEPT !.pc = "clear"] ELSE AuthReturn(b, OkUnit)
        ELSE IF r.ok THEN [b EXCEPT !.pc = "verify"] ELSE AuthReturn(b, Fail(r.err))

\* what a poll of wait_for_service_ready saw: Connected, or anything else
\* get_service_state may give, a failure included
PollClass(out) ==
    IF ServiceStateOf[out].ok /\ ServiceStateOf[out].state = "Connected"
    THEN "Connected" ELSE "other"

\* the loop of wait_for_service_ready as if a service that is still
\* connecting were ready
WaitStep_ConnectingIsReady(a, out, secs) ==
    LET b == [a EXCEPT !.last_poll = PollClass(out)]
    IN  IF ~(a.elapsed < a.timeout)
        THEN WaitReturn(a, Fail(AuthenticationTimeout(a.timeout)))
        ELSE IF ServiceStateOf[out].ok
                /\ ServiceStateOf[out].state \in {"Connected", "Connecting"}
        THEN WaitReturn(b, OkUnit)
        ELSE [b EXCEPT !.elapsed = @ + secs + 1]

\* one turn of the loop of wait_for_service_ready (network.rs lines 253-271):
\* the test of the clock, a status poll that took `secs` seconds, the 1 s sleep
WaitStep(a, out, secs) ==
    LET b == [a EXCEPT !.last_poll = PollClass(out)]
    IN  IF ~(a.elapsed < a.timeout)
        THEN WaitReturn(a, Fail(AuthenticationTimeout(a.timeout)))
        ELSE IF ServiceStateOf[out].ok /\ ServiceStateOf[out].state = "Connected"
        THEN WaitReturn(b, OkUnit)
        ELSE [b EXCEPT !.elapsed = @ + secs + 1]

\* update_network(None) has been called: lines 412-417 (188-193)
ClearStep(a) == Event([a EXCEPT !.pc = "spawn"], "update_network")

\* rebuild_tray_after_delay has been called and Ok(()) returned: lines 419-422
SpawnStep(a) == AuthReturn(Event(a, "rebuild_tray_after_delay"), OkUnit)

(***************************************************************************)
(* start_resource_auth (auth.rs lines 44-92), execute_auth_command and     *)
(* wait_for_auth_completion, on the frame of handle_service_auth.          *)
(***************************************************************************)
\* tray.rs: const AUTHENTICATE_ID
AUTHENTICATE_ID == <<"a","u","t","h","e","n","t","i","c","a","t","e">>

\* the auth_id of handle_menu_action: format!("{}-{}", AUTHENTICATE_ID, id),
\* for the ids of the resources and for one no snapshot holds
ResourceIds == {r.id : r \in ResourceUniverse} \cup {<<"9">>}

AuthIds == {AUTHENTICATE_ID \o <<"-">> \o id : id \in ResourceIds}

\* auth_id.split("-").last(): what follows the last "-"
split_last(s) ==
    LET dashes == {i \in 1..Len(s) : s[i] = "-"}
    IN  IF dashes = {} THEN s
        ELSE SubSeq(s, (CHOOSE i \in dashes : \A j \in dashes : j <= i) + 1, Len(s))

\* the fetch that resolves the resource, and the one that verifies
resolve_fetch == get_network_data_with_retry(AUTH_RETRY_ATTEMPTS)

verify_fetch == get_network_data_with_retry(2)

\* what `pkexec twingate auth <name>` may give
ExecOutcomes == {"pkexec spawn error", "pkexec exit 1", "pkexec exit 0"}

\* entry of start_resource_auth: lines 44-50
StartResourceAuth(auth_id) ==
    [AuthIdle EXCEPT !.pc = "resolve", !.flow = "resource",
                     !.resource = Some([id |-> split_last(auth_id), name |-> <<>>])]

\* n.resources.iter().position(|x| x.id == resource_id)
position(resources, id) ==
    LET at == {i \in 1..Len(resources) : resources[i].id = id}
    IN  IF at = {} THEN None ELSE Some(CHOOSE i \in at : \A j \in at : i <= j)

\* the fetch and the lookup of the resource: lines 55-68
ResolveStep(a, r) ==
    LET b == [a EXCEPT !.fetched = Some(r)]
    IN  IF ~r.ok THEN AuthReturn(b, Fail(r.err))
        ELSE IF r.value = None THEN AuthReturn(b, Fail(Error("ServiceNotRunning")))
        ELSE LET idx == position(r.value[1].resources, a.resource[1].id)
             IN  IF idx = None THEN AuthReturn(b, Fail(Error("ResourceNotFound")))
                 ELSE [b EXCEPT !.pc = "exec",
                                !.resource = Some(r.value[1].resources[idx[1]])]

\* execute_auth_command as if a non-zero exit were a success
ExecStep_IgnoreExit(a, outcome) ==
    IF outcome = "pkexec spawn error"
    THEN AuthReturn(Event(a, outcome), Fail(Error("CommandExecutionError")))
    ELSE Event([a EXCEPT !.pc = "delay"], outcome)

\* execute_auth_command: lines 442-479, and lines 71-90
ExecStep(a, outcome) ==
    IF outcome = "pkexec spawn error"
    THEN AuthReturn(Event(a, outcome), Fail(Error("CommandExecutionError")))
    ELSE IF outcome = "pkexec exit 1"
    THEN AuthReturn(Event(a, outcome), Fail(Error("CommandFailed")))
    ELSE Event([a EXCEPT !.pc = "delay"], outcome)

\* the pause of wait_for_auth_completion and the entry of
\* wait_for_service_ready: lines 485-488
DelayStep(a) ==
    Event([a EXCEPT !.pc = "wait", !.timeout = AUTH_TIMEOUT_SECONDS, !.elapsed = 0],
          "sleep 500")

\* the fetch that verifies: lines 493-507
VerifyStep(a, r) ==
    LET b == [a EXCEPT !.verified = Some(r)]
    IN  IF r.ok /\ r.value # None THEN AuthReturn(b, OkUnit)
        ELSE IF r.ok THEN AuthReturn(b, Fail(Error("ServiceNotRunning")))
        ELSE AuthReturn(b, OkUnit)

\* what a frame keeps when its call is not observed: the locals the code
\* still reads
\* history of the last step: a stream of the output it decodes (stdout, and
\* stderr for an auth command) holds bytes that are not UTF-8
Decoded(a, out) ==
    [a EXCEPT !.invalid_utf8_seen =
         \/ out.spawned /\ ~out.utf8
         \/ out.spawned /\ "stderr_utf8" \in DOMAIN out /\ ~out.stderr_utf8]

\* a step that runs no command of its own
NothingDecoded(a) == [a EXCEPT !.invalid_utf8_seen = FALSE]

DropAuthHistory(a) ==
    IF a.observed THEN a
    ELSE LET searching == a.pc \in {"loop_status", "loop_fetch", "loop_resources",
                                    "loop_commands"}
         IN  [a EXCEPT !.events = <<>>, !.found = NotFound, !.said_authenticating = FALSE,
                       !.sleeps = 0, !.last_poll = "none", !.wait_result = None,
                       !.fetched = None, !.verified = None, !.invalid_utf8_seen = FALSE,
                       !.attempt = IF searching THEN @ ELSE 0,
                       !.cmd = IF searching THEN @ ELSE 0,
                       !.auth_url = IF a.pc \in {"set", "tray", "open", "xdg_open"}
                                    THEN @ ELSE None,
                       !.menu_at_open = IF a.pc \in {"xdg_open", "settle"}
                                        THEN @ ELSE "none",
                       !.elapsed = IF a.pc = "wait" THEN @ ELSE 0,
                       !.timeout = IF a.pc = "wait" THEN @ ELSE 0]

\* the fetch of the first attempt and the one after the loop: one attempt
auth_fetch == get_network_data_with_retry(1)

\* the frames one step of the search or of the wait leads to, over the
\* answers of the daemon
AuthFrameNext(a) ==
    IF a.pc = "loop_status"
    THEN {DropAuthHistory(LoopStatusStep(a, out)) : out \in AuthStatusOutputs}
    ELSE IF a.pc = "loop_fetch"
    THEN {DropAuthHistory(LoopFetchStep(a, r)) : r \in auth_fetch}
    ELSE IF a.pc = "loop_resources"
    THEN {DropAuthHistory(LoopResourcesStep(a, out)) : out \in ListingOutputs}
    ELSE IF a.pc = "loop_commands"
    THEN {DropAuthHistory(LoopCommandStep(a, out)) : out \in AuthCommandOutputs}
    ELSE IF a.pc = "final_fetch"
    THEN {DropAuthHistory(FinalFetchStep(a, r, source)) :
              r \in auth_fetch, source \in SourceMessages}
    ELSE IF a.pc = "wait"
    THEN {DropAuthHistory(WaitStep(a, out, secs)) :
              out \in StatusOutputs, secs \in 0..MaxCommandSecs}
    ELSE {}

\* the frames reachable from those of `seen`, the frames of `frontier` being
\* the ones whose steps have not been taken yet
RECURSIVE AuthReach(_, _)
AuthReach(seen, frontier) ==
    LET new == UNION {AuthFrameNext(a) : a \in frontier} \ seen
    IN  IF new = {} THEN seen ELSE AuthReach(seen \cup new, new)

AuthFrames(S) == AuthReach(S, S)

\* the frames the search of handle_service_auth may end in: a URL to show, or
\* a return.  The search writes nothing but its own frame.
detect_auth_url ==
    {a \in AuthFrames({LoopHead(StartServiceAuth)}) : a.pc \in {"set", "returned"}}

\* the values wait_for_service_ready may return, by its two return
\* statements (network.rs lines 257 and 271); WaitPoll follows its loop
wait_for_service_ready(timeout_seconds) ==
    {OkUnit, Fail(AuthenticationTimeout(timeout_seconds))}

\* the menu the tray icon shows
ShownMenu == IF tray_menu = None THEN "none" ELSE tray_menu[1].menu

(***************************************************************************)
(* StartService and StopService (lib.rs handle_menu_action) and            *)
(* handle_service_auth (auth.rs).  Among the other tasks the search for    *)
(* the URL and the wait for the service are one step each: they write      *)
(* nothing but their own frame.                                            *)
(***************************************************************************)
ClickStartService(t) ==
    /\ t \in FreeSlots
    /\ MenuShown("disconnected")
    /\ \E started \in BOOLEAN :
           IF started
           THEN /\ task' = [task EXCEPT ![t] = Task("auth")]
                /\ auth' = [auth EXCEPT ![t] = StartServiceAuth]
           ELSE /\ task' = [task EXCEPT ![t] = IdleTask]
                /\ UNCHANGED auth
    /\ UNCHANGED <<app_state, last_write, fetch, tray_menu, lock, text_call>>

\* the first status check
AuthStatus(t) ==
    /\ auth[t].pc = "status"
    /\ \E out \in AuthStatusOutputs :
           auth' = [auth EXCEPT ![t] = DropAuthHistory(FirstStatusStep(Decoded(@, out), out))]
    /\ UNCHANGED <<app_state, last_write, fetch, task, tray_menu, lock, text_call>>

\* the detection loop and the fetch after it, as one step
AuthDetect(t) ==
    /\ auth[t].pc = "loop_status"
    /\ ~auth[t].observed
    /\ \E a \in detect_auth_url : auth' = [auth EXCEPT ![t] = a]
    /\ UNCHANGED <<app_state, last_write, fetch, task, tray_menu, lock, text_call>>

\* the detection loop step by step
DetectStatus(t) ==
    /\ auth[t].pc = "loop_status"
    /\ \E out \in AuthStatusOutputs :
           auth' = [auth EXCEPT ![t] = DropAuthHistory(LoopStatusStep(Decoded(@, out), out))]
    /\ UNCHANGED <<app_state, last_write, fetch, task, tray_menu, lock, text_call>>

DetectFetch(t) ==
    /\ auth[t].pc = "loop_fetch"
    /\ \E r \in auth_fetch :
           auth' = [auth EXCEPT ![t] = DropAuthHistory(LoopFetchStep(NothingDecoded(@), r))]
    /\ UNCHANGED <<app_state, last_write, fetch, task, tray_menu, lock, text_call>>

DetectResources(t) ==
    /\ auth[t].pc = "loop_resources"
    /\ \E out \in ListingOutputs :
           auth' = [auth EXCEPT ![t] = DropAuthHistory(LoopResourcesStep(Decoded(@, out), out))]
    /\ UNCHANGED <<app_state, last_write, fetch, task, tray_menu, lock, text_call>>

DetectCommand(t) ==
    /\ auth[t].pc = "loop_commands"
    /\ \E out \in AuthCommandOutputs :
           auth' = [auth EXCEPT ![t] = DropAuthHistory(LoopCommandStep(Decoded(@, out), out))]
    /\ UNCHANGED <<app_state, last_write, fetch, task, tray_menu, lock, text_call>>

DetectFinalFetch(t) ==
    /\ auth[t].pc = "final_fetch"
    /\ \E r \in auth_fetch, source \in SourceMessages :
           auth' = [auth EXCEPT ![t] = DropAuthHistory(FinalFetchStep(NothingDecoded(@), r, source))]
    /\ UNCHANGED <<app_state, last_write, fetch, task, tray_menu, lock, text_call>>

AuthSet(t) ==
    /\ auth[t].pc = "set"
    /\ \E site \in {"auth_set_status", "auth_set"} :
           WriteAuthenticating(t, site, auth[t].auth_url[1])
    /\ auth' = [auth EXCEPT ![t] = DropAuthHistory(SetStep(@))]
    /\ UNCHANGED <<fetch, task, tray_menu, text_call>>

\* rebuild_tray_for_auth_state: build_tray_menu(app, None) set on the icon
AuthTray(t) ==
    /\ auth[t].pc = "tray"
    /\ Guard(t, "tray_menu")
    /\ tray_menu' = IF tray_menu = None THEN None
                    ELSE Some(build_tray_menu(app_state, None))
    /\ auth' = [auth EXCEPT ![t] = DropAuthHistory(TrayStep(@))]
    /\ UNCHANGED <<app_state, last_write, fetch, task, text_call>>

\* the browser is opened on the URL, or the opener fails
AuthOpen(t) ==
    /\ auth[t].pc = "open"
    /\ \E opened \in BOOLEAN :
           auth' = [auth EXCEPT ![t] = DropAuthHistory(OpenStep(@, opened, ShownMenu))]
    /\ UNCHANGED <<app_state, last_write, fetch, task, tray_menu, lock, text_call>>

AuthXdgOpen(t) ==
    /\ auth[t].pc = "xdg_open"
    /\ \E outcome \in XdgOutcomes :
           auth' = [auth EXCEPT ![t] = DropAuthHistory(XdgOpenStep(@, outcome))]
    /\ UNCHANGED <<app_state, last_write, fetch, task, tray_menu, lock, text_call>>

AuthSettle(t) ==
    /\ auth[t].pc = "settle"
    /\ auth' = [auth EXCEPT ![t] = DropAuthHistory(SettleStep(@))]
    /\ UNCHANGED <<app_state, last_write, fetch, task, tray_menu, lock, text_call>>

\* wait_for_service_ready as one step
AuthWait(t) ==
    /\ auth[t].pc = "wait"
    /\ ~auth[t].observed
    /\ \E r \in wait_for_service_ready(auth[t].timeout) :
           auth' = [auth EXCEPT ![t] = DropAuthHistory(WaitReturn(@, r))]
    /\ UNCHANGED <<app_state, last_write, fetch, task, tray_menu, lock, text_call>>

\* wait_for_service_ready poll by poll
WaitPoll(t) ==
    /\ auth[t].pc = "wait"
    /\ \E out \in StatusOutputs, secs \in 0..MaxCommandSecs :
           auth' = [auth EXCEPT ![t] = DropAuthHistory(WaitStep(@, out, secs))]
    /\ UNCHANGED <<app_state, last_write, fetch, task, tray_menu, lock, text_call>>

\* Connected was seen: the state is cleared
AuthClear(t) ==
    /\ auth[t].pc = "clear"
    /\ \E site \in {"auth_clear_status", "auth_clear"} : WriteNetwork(t, site, None)
    /\ auth' = [auth EXCEPT ![t] = DropAuthHistory(ClearStep(@))]
    /\ UNCHANGED <<fetch, task, tray_menu, text_call>>

\* the rebuild handle_service_auth spawns before it returns
AuthSpawn(t) ==
    /\ auth[t].pc = "spawn"
    /\ \E u \in FreeSlots : task' = [task EXCEPT ![u] = Task("rebuild")]
    /\ auth' = [auth EXCEPT ![t] = DropAuthHistory(SpawnStep(@))]
    /\ UNCHANGED <<app_state, last_write, fetch, tray_menu, lock, text_call>>

\* start_resource_auth: the fetch and the lookup
ResourceResolve(t) ==
    /\ auth[t].pc = "resolve"
    /\ \E r \in resolve_fetch :
           auth' = [auth EXCEPT ![t] = DropAuthHistory(ResolveStep(@, r))]
    /\ UNCHANGED <<app_state, last_write, fetch, task, tray_menu, lock, text_call>>

ResourceExec(t) ==
    /\ auth[t].pc = "exec"
    /\ \E outcome \in ExecOutcomes :
           auth' = [auth EXCEPT ![t] = DropAuthHistory(ExecStep(@, outcome))]
    /\ UNCHANGED <<app_state, last_write, fetch, task, tray_menu, lock, text_call>>

ResourceDelay(t) ==
    /\ auth[t].pc = "delay"
    /\ auth' = [auth EXCEPT ![t] = DropAuthHistory(DelayStep(@))]
    /\ UNCHANGED <<app_state, last_write, fetch, task, tray_menu, lock, text_call>>

\* ResourceVerify as if the snapshot of the verifying fetch were written
ResourceVerify_Writes(t) ==
    /\ auth[t].pc = "verify"
    /\ \E r \in verify_fetch :
           /\ auth' = [auth EXCEPT ![t] = DropAuthHistory(VerifyStep(@, r))]
           /\ IF r.ok THEN WriteNetwork(t, "auth_clear", r.value)
              ELSE UNCHANGED <<app_state, last_write, lock>>
    /\ UNCHANGED <<fetch, task, tray_menu, text_call>>

ResourceVerify(t) ==
    /\ auth[t].pc = "verify"
    /\ \E r \in verify_fetch :
           auth' = [auth EXCEPT ![t] = DropAuthHistory(VerifyStep(@, r))]
    /\ UNCHANGED <<app_state, last_write, fetch, task, tray_menu, lock, text_call>>

\* handle_service_auth has returned, Ok or Err: the handler of StartService
\* goes on to rebuild_tray_after_delay (lib.rs line 281)
AuthDone(t) ==
    /\ auth[t].pc = "returned"
    /\ auth[t].flow = "service"
    /\ ~auth[t].observed
    /\ task' = [task EXCEPT ![t] = Task("rebuild")]
    /\ auth' = [auth EXCEPT ![t] = AuthIdle]
    /\ UNCHANGED <<app_state, last_write, fetch, tray_menu, lock, text_call>>

ClickStopService(t) ==
    /\ t \in FreeSlots
    /\ MenuShown("connected")
    /\ \E stopped \in BOOLEAN :
           task' = [task EXCEPT ![t] = IF stopped THEN Task("rebuild") ELSE IdleTask]
    /\ UNCHANGED <<app_state, last_write, fetch, tray_menu, auth, lock, text_call>>

\* 30 s pass since the last write
CacheAges ==
    /\ app_state.last_update = Some("fresh")
    /\ app_state' = [app_state EXCEPT !.last_update = Some("stale")]
    /\ UNCHANGED <<last_write, fetch, task, tray_menu, auth, lock, text_call>>

TaskNext(t) ==
    \/ StartupWrite(t) \/ StartupTray(t) \/ BgRetry(t)
    \/ RebuildFetch(t) \/ RebuildTray(t)
    \/ ClickResource(t) \/ Refresh(t) \/ UseNetwork(t)
    \/ ClickStartService(t) \/ AuthStatus(t) \/ AuthDetect(t) \/ AuthSet(t)
    \/ AuthTray(t) \/ AuthOpen(t) \/ AuthXdgOpen(t) \/ AuthSettle(t)
    \/ AuthWait(t) \/ AuthClear(t) \/ AuthSpawn(t) \/ AuthDone(t)
    \/ ClickStopService(t)

Init ==
    /\ app_state = AppState_new
    /\ last_write = NoWrite
    /\ tray_menu = None
    /\ task = [t \in Tasks |-> IF t = 1 THEN Task("startup") ELSE IdleTask]
    /\ fetch = [t \in Tasks |-> IdleFrame]
    /\ auth = [t \in Tasks |-> AuthIdle]
    /\ lock = 0
    /\ text_call = NoCall

Next == (\E t \in Tasks : TaskNext(t)) \/ CacheAges

Spec == Init /\ [][Next]_vars

(***************************************************************************)
(* SpecAuth: one call of handle_service_auth or of start_resource_auth,    *)
(* step by step, against a daemon that may answer anything to each         *)
(* command.  handle_service_auth starts as StartService starts it: the     *)
(* service was not running, the tray shows the disconnected menu.          *)
(* start_resource_auth starts from a connected menu, with any auth_id.     *)
(***************************************************************************)
InitServiceAuth ==
    /\ app_state = update_network(AppState_new, None)
    /\ last_write = [op |-> "update_network", network |-> None, url |-> <<>>,
                     prior |-> "NotRunning"]
    /\ auth = [t \in Tasks |->
                   IF t = 1 THEN [StartServiceAuth EXCEPT !.observed = TRUE]
                   ELSE AuthIdle]

InitResourceAuth ==
    /\ \E n \in Networks :
           /\ app_state = update_network(AppState_new, Some(n))
           /\ last_write = [op |-> "update_network", network |-> Some(n), url |-> <<>>,
                            prior |-> "NotRunning"]
    /\ \E auth_id \in AuthIds :
           auth = [t \in Tasks |->
                       IF t = 1 THEN [StartResourceAuth(auth_id) EXCEPT !.observed = TRUE]
                       ELSE AuthIdle]

InitAuth ==
    /\ InitServiceAuth \/ InitResourceAuth
    /\ tray_menu = Some(build_tray_menu(app_state, app_state.network))
    /\ fetch = [t \in Tasks |-> IdleFrame]
    /\ task = [t \in Tasks |-> IF t = 1 THEN Task("auth") ELSE IdleTask]
    /\ lock = 0
    /\ text_call = NoCall

AuthNext ==
    \E t \in Tasks :
        \/ AuthStatus(t) \/ DetectStatus(t) \/ DetectFetch(t) \/ DetectResources(t)
        \/ DetectCommand(t) \/ DetectFinalFetch(t) \/ AuthSet(t) \/ AuthTray(t)
        \/ AuthOpen(t) \/ AuthXdgOpen(t) \/ AuthSettle(t) \/ WaitPoll(t)
        \/ AuthClear(t) \/ AuthSpawn(t)
        \/ ResourceResolve(t) \/ ResourceExec(t) \/ ResourceDelay(t) \/ ResourceVerify(t)

SpecAuth == InitAuth /\ [][AuthNext]_vars

\* the runtime resumes the task when the status command of a poll has
\* returned and when its 1 s sleep has passed
SpecAuthFair == SpecAuth /\ \A t \in Tasks : WF_vars(WaitPoll(t))

(***************************************************************************)
(* SpecDone: one call of handle_service_auth and the tray rebuilds that    *)
(* follow it (the one the flow spawns at lines 419, 197 and the one of the *)
(* StartService handler), against a daemon that, once the wait of the flow *)
(* has seen Connected, reports Connected at every status poll and prints a *)
(* snapshot at every resources command.                                    *)
(***************************************************************************)
\* the status outputs that classify as Connected
ConnectedOutputs ==
    {out \in StatusOutputs : ServiceStateOf[out].ok /\ ServiceStateOf[out].state = "Connected"}

\* the resources outputs that are the JSON text of a snapshot
SnapshotOutputs == {TextOutput(RenderNetwork(n) \o <<"\n">>) : n \in Networks}

\* the frames one step of the loop leads to against that daemon
ServedNext(f) ==
    IF f.pc = "status"
    THEN {DropHistory(StatusStep(f, out)) : out \in ConnectedOutputs}
    ELSE IF f.pc = "resources"
    THEN {DropHistory(ResourcesStep(f, out)) : out \in SnapshotOutputs}
    ELSE IF f.pc = "retry" THEN {DropHistory(RetryStep(f))}
    ELSE {}

RECURSIVE ServedFrames(_)
ServedFrames(S) ==
    LET T == S \cup UNION {ServedNext(f) : f \in S}
    IN  IF T = S THEN S ELSE ServedFrames(T)

\* what get_network_data may return against that daemon
served_network_data ==
    {f.result[1] : f \in {g \in ServedFrames({StartFrame(MAX_RETRIES)}) : g.pc = "returned"}}

RebuildServed(t) == RebuildWith(t, served_network_data)

InitDone ==
    /\ app_state = update_network(AppState_new, None)
    /\ last_write = [op |-> "update_network", network |-> None, url |-> <<>>,
                     prior |-> "NotRunning"]
    /\ auth = [t \in Tasks |-> IF t = 1 THEN StartServiceAuth ELSE AuthIdle]
    /\ tray_menu = Some(build_tray_menu(app_state, app_state.network))
    /\ fetch = [t \in Tasks |-> IdleFrame]
    /\ task = [t \in Tasks |-> IF t = 1 THEN Task("auth") ELSE IdleTask]
    /\ lock = 0
    /\ text_call = NoCall

DoneNext ==
    \E t \in Tasks :
        \/ AuthStatus(t) \/ AuthDetect(t) \/ AuthSet(t) \/ AuthTray(t)
        \/ AuthOpen(t) \/ AuthXdgOpen(t) \/ AuthSettle(t) \/ AuthWait(t)
        \/ AuthClear(t) \/ AuthSpawn(t) \/ AuthDone(t)
        \/ RebuildServed(t) \/ RebuildTray(t)

\* the runtime runs every spawned task and every sleep ends: a step of the
\* flow or of a rebuild that can be taken is taken
SpecDone ==
    /\ InitDone /\ [][DoneNext]_vars
    /\ \A t \in Tasks :
           /\ WF_vars(AuthClear(t)) /\ WF_vars(AuthSpawn(t)) /\ WF_vars(AuthDone(t))
           /\ WF_vars(RebuildServed(t)) /\ WF_vars(RebuildTray(t))

(***************************************************************************)
(* SpecText: one call of a function over text (from_status_output,         *)
(* is_auth_required, extract_url_from_text, extract_url_with_pattern,      *)
(* from_event_id) on a text put together from parts, so that what the text *)
(* holds is known by construction, or of get_address_from_resource.        *)
(***************************************************************************)
\* texts with the stem "auth" and one of the qualifiers, none of the explicit phrases
StemTexts ==
    { <<"o","a","u","t","h"," ","t","o","k","e","n"," ","e","x","p","i","r","e","d">>,
      <<"r","e","q","u","i","r","e","d",":"," ","r","e","a","u","t","h">>,
      <<"a","u","t","h"," ","i","s"," ","n","e","e","d","e","d">> }

\* one keyword of each family after the first
SecondWords ==
    { <<"s","t","o","p","p","e","d">>,
      <<"l","o","a","d","i","n","g">>,
      <<"h","a","n","d","s","h","a","k","e">>,
      <<"r","e","a","d","y">> }

FamilyWords == NotRunningWords \cup StartingWords \cup ConnectingWords \cup ConnectedWords

\* the upper-case letter of a lower-case one
UpperChar(c) ==
    IF \E u \in DOMAIN UpperToLower : UpperToLower[u] = c
    THEN CHOOSE u \in DOMAIN UpperToLower : UpperToLower[u] = c
    ELSE c

\* a status text as the daemon may write it: as it is, in capitals, or
\* between blank characters
Styled(s, style) ==
    IF style = "capitals" THEN [i \in 1..Len(s) |-> UpperChar(s[i])]
    ELSE IF style = "padded" THEN <<" ", "\n">> \o s \o <<"\t", " ">>
    ELSE s

\* the parts of a status text: an authentication phrase or none, a keyword
\* before it or none, a keyword after it or none
StatusParts ==
    [kind : {"status"},
     auth : {None} \cup {Some(p) : p \in AuthPhrases \cup StemTexts},
     first : {None} \cup {Some(w) : w \in FamilyWords},
     second : {None} \cup {Some(w) : w \in SecondWords},
     style : {"plain", "capitals", "padded"}]

StatusText(p) == Styled(Join(p.first \o p.auth \o p.second, <<" ">>), p.style)

\* texts without any keyword
UnknownTexts ==
    { <<>>,
      <<"x","y","z","z","y">>,
      <<"s","t","a","t","u","s",":"," ","4","2">>,
      <<"t","w","i","n","g","a","t","e"," ","1",".","0">> }

\* the parts of a text around URLs: what precedes the first URL, the URL,
\* the punctuation that follows it, and the rest of the text
UrlLeads ==
    { <<>>,
      <<"V","i","s","i","t"," ">>,
      <<"v","i","s","i","t",":"," ">>,
      <<"V","I","S","I","T",":"," ">>,
      <<"M","u","l","t","i","p","l","e"," ","U","R","L","s",":"," ">> }

UrlBodies ==
    { <<>>,
      <<"h","t","t","p","s",":","/","/">>,
      <<"h","t","t","p",":","/","/","a">>,
      <<"h","t","t","p",":","/","/","a",".","b">>,
      <<"h","t","t","p","s",":","/","/","a">>,
      <<"h","t","t","p","s",":","/","/","f","i","r","s","t",".","c","o","m">>,
      <<"h","t","t","p","s",":","/","/","e","x","a","m","p","l","e",".","c","o","m","/","a","u","t","h","?","c","=","1">> }

UrlTails ==
    { <<>>,
      <<".">>,
      <<",">>,
      <<")">>,
      <<"]">>,
      <<"}">>,
      <<"\"">>,
      <<".","\"">>,
      <<"\"",".">>,
      <<".",".">>,
      <<".",",">>,
      <<")",".">> }

UrlRests ==
    { <<>>,
      <<" ","a","n","d"," ","h","t","t","p","s",":","/","/","s","e","c","o","n","d",".","c","o","m">>,
      <<" ","g","o"," ","t","o",":"," ","h","t","t","p","s",":","/","/","s","e","c","o","n","d",".","c","o","m">>,
      <<" ","V","i","s","i","t",":"," ","h","t","t","p","s",":","/","/","s","e","c","o","n","d",".","c","o","m">> }

UrlParts == [kind : {"url"}, lead : UrlLeads, url : UrlBodies, tail : UrlTails, rest : UrlRests]

UrlText(p) == p.lead \o p.url \o p.tail \o p.rest

\* pattern lists of the callers' kind, and one whose pattern has a capital
PatternLists ==
    { <<>>,
      <<<<"v","i","s","i","t",":">>>>,
      <<<<"g","o"," ","t","o",":">>,
        <<"v","i","s","i","t",":">>>>,
      <<<<"V","i","s","i","t",":">>>> }

\* models.rs Resource, the fields get_address_from_resource reads: an alias
\* that is absent, empty or given, and an address
AddressResources ==
    [kind : {"resource"},
     alias : {None, Some(<<>>), Some(<<"w","e","b">>)},
     address : {<<"1","0",".","0",".","0",".","1">>, <<"d","b",".","i","n","t">>}]

\* get_address_from_resource as if an empty alias were an alias
get_address_from_resource_AnyAlias(resource) ==
    IF resource.alias # None THEN resource.alias[1] ELSE resource.address

\* tray.rs get_address_from_resource: alias.as_ref().filter(|s| !s.is_empty())
\* .unwrap_or(&resource.address)
get_address_from_resource(resource) ==
    LET filtered == IF resource.alias # None /\ Len(resource.alias[1]) # 0
                    THEN resource.alias ELSE None
    IN  IF filtered # None THEN filtered[1] ELSE resource.address

\* tray.rs: the ids of the menu items, those of the fixed items and the
\* prefixes of the items of a resource
QUIT_ID == <<"q","u","i","t">>

START_SERVICE_ID == <<"s","t","a","r","t","_","s","e","r","v","i","c","e">>

STOP_SERVICE_ID == <<"s","t","o","p","_","s","e","r","v","i","c","e">>

OPEN_AUTH_URL_ID == <<"o","p","e","n","_","a","u","t","h","_","u","r","l">>

COPY_AUTH_URL_ID == <<"c","o","p","y","_","a","u","t","h","_","u","r","l">>

COPY_ADDRESS_ID == <<"c","o","p","y","_","a","d","d","r","e","s","s">>

OPEN_IN_BROWSER_ID == <<"o","p","e","n","_","i","n","_","b","r","o","w","s","e","r">>

\* MenuAction of a fixed item or of an item of a resource
MenuAction(action, resource_id) == [action |-> action, resource_id |-> resource_id]

\* tray.rs MenuAction::from_event_id: the match, arm by arm
from_event_id(event_id) ==
    IF event_id = QUIT_ID THEN MenuAction("Quit", <<>>)
    ELSE IF event_id = START_SERVICE_ID THEN MenuAction("StartService", <<>>)
    ELSE IF event_id = STOP_SERVICE_ID THEN MenuAction("StopService", <<>>)
    ELSE IF event_id = OPEN_AUTH_URL_ID THEN MenuAction("OpenAuthUrl", <<>>)
    ELSE IF event_id = COPY_AUTH_URL_ID THEN MenuAction("CopyAuthUrl", <<>>)
    ELSE IF contains(event_id, COPY_ADDRESS_ID)
    THEN MenuAction("CopyAddress", split_last(event_id))
    ELSE IF contains(event_id, AUTHENTICATE_ID)
    THEN MenuAction("Authenticate", split_last(event_id))
    ELSE IF contains(event_id, OPEN_IN_BROWSER_ID)
    THEN MenuAction("OpenInBrowser", split_last(event_id))
    ELSE MenuAction("Unknown", event_id)

\* the id a handler of lib.rs looks up for an action: handle_menu_action
\* builds "<prefix>-<resource_id>" for handle_copy_address (lines 330-333,
\* 29) and for start_resource_auth (lines 335-338, auth.rs 47-50), which take
\* its last segment; handle_open_in_browser is given the id itself
looked_up_id(action) ==
    IF action.action = "CopyAddress"
    THEN split_last(COPY_ADDRESS_ID \o <<"-">> \o action.resource_id)
    ELSE IF action.action = "Authenticate"
    THEN split_last(AUTHENTICATE_ID \o <<"-">> \o action.resource_id)
    ELSE action.resource_id

\* resources of a snapshot by their ids, one of them with a dash in its id
EventIds == {<<"1">>, <<"b">>, <<"a","-","b">>}

EventResources ==
    {rs \in UNION {[1..k -> EventIds] : k \in 1..2} :
         \A i, j \in DOMAIN rs : i # j => rs[i] # rs[j]}

\* the item of the resource at `index`, built by build_resource_menu or
\* build_auth_menu as format!("{}-{}", PREFIX, &resource.id)
EventParts ==
    {p \in [kind : {"event"}, prefix : {COPY_ADDRESS_ID, AUTHENTICATE_ID, OPEN_IN_BROWSER_ID},
            ids : EventResources, index : 1..2] : p.index <= Len(p.ids)}

EventId(p) == p.prefix \o <<"-">> \o p.ids[p.index]

StartCall(parts, text) == [NoCall EXCEPT !.parts = Some(parts), !.text = text]

InitText ==
    /\ app_state = AppState_new
    /\ last_write = NoWrite
    /\ tray_menu = None
    /\ task = [t \in Tasks |-> IdleTask]
    /\ fetch = [t \in Tasks |-> IdleFrame]
    /\ auth = [t \in Tasks |-> AuthIdle]
    /\ lock = 0
    /\ \/ \E p \in StatusParts : text_call = StartCall(p, StatusText(p))
       \/ \E u \in UnknownTexts, style \in {"plain", "padded"} :
              text_call = StartCall([kind |-> "unknown"], Styled(u, style))
       \/ \E p \in UrlParts : text_call = StartCall(p, UrlText(p))
       \/ \E p \in AddressResources : text_call = StartCall(p, <<>>)
       \/ \E p \in EventParts : text_call = StartCall(p, EventId(p))

Called(fn, result) == [text_call EXCEPT !.fn = fn, !.result = Some(result)]

CallFromStatusOutput ==
    /\ text_call.fn = "none"
    /\ text_call.parts[1].kind \in {"status", "unknown"}
    /\ text_call' = Called("from_status_output", from_status_output(text_call.text))
    /\ UNCHANGED <<app_state, last_write, fetch, task, tray_menu, auth, lock>>

CallExtractUrlFromText ==
    /\ text_call.fn = "none"
    /\ text_call.parts[1].kind = "url"
    /\ text_call' = Called("extract_url_from_text", extract_url_from_text(text_call.text))
    /\ UNCHANGED <<app_state, last_write, fetch, task, tray_menu, auth, lock>>

CallExtractUrlWithPattern ==
    /\ text_call.fn = "none"
    /\ text_call.parts[1].kind = "url"
    /\ \E patterns \in PatternLists :
           text_call' = [Called("extract_url_with_pattern",
                                extract_url_with_pattern(text_call.text, patterns))
                             EXCEPT !.patterns = patterns]
    /\ UNCHANGED <<app_state, last_write, fetch, task, tray_menu, auth, lock>>

CallGetAddressFromResource ==
    /\ text_call.fn = "none"
    /\ text_call.parts[1].kind = "resource"
    /\ text_call' = Called("get_address_from_resource",
                           get_address_from_resource(text_call.parts[1]))
    /\ UNCHANGED <<app_state, last_write, fetch, task, tray_menu, auth, lock>>

CallIsAuthRequired ==
    /\ text_call.fn = "none"
    /\ text_call.parts[1].kind \in {"status", "unknown"}
    /\ text_call' = Called("is_auth_required", is_auth_required(text_call.text))
    /\ UNCHANGED <<app_state, last_write, fetch, task, tray_menu, auth, lock>>

\* the click on the item: the id is decoded and the handler looks its
\* resource up in the snapshot
CallFromEventId ==
    /\ text_call.fn = "none"
    /\ text_call.parts[1].kind = "event"
    /\ LET action == from_event_id(text_call.text)
           resources == [i \in DOMAIN text_call.parts[1].ids |->
                            [id |-> text_call.parts[1].ids[i]]]
       IN  text_call' = Called("from_event_id",
                               [action |-> action,
                                found |-> position(resources, looked_up_id(action))])
    /\ UNCHANGED <<app_state, last_write, fetch, task, tray_menu, auth, lock>>

TextNext ==
    \/ CallFromStatusOutput
    \/ CallFromEventId
    \/ CallIsAuthRequired
    \/ CallExtractUrlFromText
    \/ CallExtractUrlWithPattern
    \/ CallGetAddressFromResource

SpecText == InitText /\ [][TextNext]_vars

(***************************************************************************)
(* Properties of the fetcher, checked under SpecFetch.                     *)
(***************************************************************************)
Returned(f) == f.pc = "returned"

\* the classification of the status poll of the current iteration
Polled(f) == f.status_out # None

Svc(f) == ServiceStateOf[f.status_out[1]]

\* the result of the resources command of the current iteration
Listed(f) == f.resources_out # None

Res(f) == ResourcesDataOf[f.resources_out[1]]

\* C1: when every status poll classified as Starting or Connecting, the call
\* made exactly max_retries + 1 iterations, slept max_retries times and returned
\* Err(RetryLimitExceeded{attempts: max_retries + 1}).
C1_RetryExhaustion ==
    \A t \in Tasks :
        LET f == fetch[t]
        IN  (Returned(f) /\ f.only_transitional) =>
                /\ f.result = Some(Fail(RetryLimitExceeded(f.max_retries + 1)))
                /\ f.attempts = f.max_retries + 1
                /\ Len(f.sleeps) = f.max_retries

C1_Witness ==
    \E t \in Tasks :
        /\ Returned(fetch[t]) /\ fetch[t].only_transitional
        /\ fetch[t].max_retries = 3 /\ fetch[t].attempts = 4
        /\ fetch[t].result = Some(Fail(RetryLimitExceeded(4)))

\* C2: a status poll that classifies as NotRunning ends the call in that
\* iteration with Ok(None): the resources command is not invoked in it and no
\* sleep follows it; on the first iteration no retry has been consumed.
C2_NotRunningShortCircuit ==
    \A t \in Tasks :
        LET f == fetch[t]
        IN  (Polled(f) /\ Svc(f).ok /\ Svc(f).state = "NotRunning") =>
                /\ Returned(f)
                /\ f.result = Some(Ok(None))
                /\ ~Listed(f)
                /\ f.retry_count = f.attempts - 1
                /\ Len(f.sleeps) = f.attempts - 1
                /\ (f.attempts = 1 => f.retry_count = 0 /\ f.sleeps = <<>>)

C2_Witness ==
    \E t \in Tasks :
        /\ Polled(fetch[t]) /\ Svc(fetch[t]).state = "NotRunning"
        /\ fetch[t].attempts = 1 /\ fetch[t].result = Some(Ok(None))

\* C3: a status poll that classifies as AuthRequired ends the call in that
\* iteration with Err(AuthenticationRequired), with no resources command and no
\* sleep after it; and no step of the fetcher changes AppState or any task's
\* flow (it starts no authentication flow).
C3_AuthRequiredImmediate ==
    /\ [](\A t \in Tasks :
             LET f == fetch[t]
             IN  (Polled(f) /\ Svc(f).ok /\ Svc(f).state = "AuthRequired") =>
                     /\ Returned(f)
                     /\ f.result = Some(Fail(Error("AuthenticationRequired")))
                     /\ ~Listed(f)
                     /\ f.retry_count = f.attempts - 1
                     /\ Len(f.sleeps) = f.attempts - 1)
    /\ [][(\E t \in Tasks : fetch'[t] # fetch[t] /\ fetch[t].pc \in {"status", "resources", "retry"})
             => (app_state' = app_state /\ task' = task)]_vars

C3_Witness ==
    \E t \in Tasks :
        /\ Polled(fetch[t]) /\ Svc(fetch[t]).state = "AuthRequired"
        /\ fetch[t].attempts = 2
        /\ fetch[t].result = Some(Fail(Error("AuthenticationRequired")))

\* C4: the k-th delay slept is min(1000 * 2^(k-1), 10000) ms; with a budget of
\* 8 retries the delays of an exhausted call are 1000, 2000, 4000, 8000 and
\* then 10000 four times.
C4_BackoffDelays ==
    \A t \in Tasks :
        LET f == fetch[t]
        IN  /\ \A k \in 1..Len(f.sleeps) : f.sleeps[k] = Min(1000 * 2^(k - 1), 10000)
            /\ f.pc \in {"status", "resources", "retry"} =>
                   f.delay_ms = Min(1000 * 2^(f.retry_count), 10000)
            /\ (Returned(f) /\ f.max_retries = 8
                    /\ f.result = Some(Fail(RetryLimitExceeded(9)))) =>
                   f.sleeps = <<1000, 2000, 4000, 8000, 10000, 10000, 10000, 10000>>

C4_Witness ==
    \E t \in Tasks :
        /\ Returned(fetch[t]) /\ fetch[t].max_retries = 8
        /\ fetch[t].sleeps = <<1000, 2000, 4000, 8000, 10000, 10000, 10000, 10000>>

\* C5: when the status command fails (it cannot be spawned, or its output is
\* not UTF-8) the resources command is invoked in the same iteration; the status
\* error is returned only if that fallback failed too, and a snapshot the
\* fallback yields is what the call returns.
C5_StatusFailureFallback ==
    \A t \in Tasks :
        LET f == fetch[t]
        IN  (Polled(f) /\ ~Svc(f).ok) =>
                /\ f.pc = "resources" \/ Listed(f)
                /\ (Returned(f) /\ f.result = Some(Fail(Svc(f).err))) =>
                       (Listed(f) /\ ~Res(f).ok)
                /\ (Listed(f) /\ Res(f).ok) =>
                       (Returned(f) /\ f.result = Some(Ok(Res(f).value)))

C5_Witness ==
    \E t \in Tasks :
        /\ Polled(fetch[t]) /\ ~Svc(fetch[t]).ok
        /\ Listed(fetch[t]) /\ Res(fetch[t]).ok /\ Res(fetch[t]).value # None
        /\ fetch[t].result = Some(Ok(Res(fetch[t]).value))

\* the shapes of a resources body C6 speaks of
EmptyBody(text) == trim(text) = <<>>

SentinelBody(text) == to_lowercase(trim(text)) \in transitional_responses

\* not JSON by the code's own test (it starts with neither { nor [) and no
\* authentication message (no "auth", no "login required")
PlainBody(text) ==
    /\ ~EmptyBody(text)
    /\ trim(text)[1] \notin {"{", "["}
    /\ ~contains(to_lowercase(text), kw_auth)
    /\ ~contains(to_lowercase(text), <<"l","o","g","i","n"," ","r","e","q","u","i","r","e","d">>)

NotReadyBody(out) ==
    out.spawned /\ out.utf8
        /\ (EmptyBody(out.stdout) \/ SentinelBody(out.stdout) \/ PlainBody(out.stdout))

ParseErrors == {"JsonError", "InvalidUtf8"}

C8_JsonBodyAccepted ==
    \A t \in Tasks :
        LET f == fetch[t]
        IN  (Polled(f) /\ Svc(f).ok /\ Svc(f).state = "Connected" /\ Listed(f)
                 /\ f.resources_out[1].spawned /\ f.resources_out[1].utf8
                 /\ from_slice(trim(f.resources_out[1].stdout)).ok
                 /\ from_slice(trim(f.resources_out[1].stdout)).value # None) =>
                /\ Returned(f)
                /\ f.result = Some(from_slice(trim(f.resources_out[1].stdout)))

(***************************************************************************)
(* Properties of AppState under the application's tasks, checked under     *)
(* Spec.                                                                   *)
(***************************************************************************)
\* C9: AppState starts with status NotRunning and no snapshot; after
\* set_authenticating(url) the status is Authenticating(url) and no snapshot
\* is cached; after update_network(Some(s)) the status is Connected and the
\* snapshot is s; after update_network(None) the status is NotRunning and no
\* snapshot is cached; whatever the state was before the call.
C9_AppStateTransitions ==
    /\ last_write.op = "none" =>
           /\ app_state.service_status = StatusNotRunning
           /\ app_state.network = None
    /\ last_write.op = "set_authenticating" =>
           /\ app_state.service_status = Authenticating(last_write.url)
           /\ app_state.network = None
    /\ last_write.op = "update_network" /\ last_write.network # None =>
           /\ app_state.service_status = StatusConnected
           /\ app_state.network = last_write.network
    /\ last_write.op = "update_network" /\ last_write.network = None =>
           /\ app_state.service_status = StatusNotRunning
           /\ app_state.network = None

\* C9 witness: update_network(None) has been applied to a state that was
\* Authenticating, and the state is NotRunning with no snapshot.
C9_Witness ==
    /\ last_write.op = "update_network"
    /\ last_write.network = None
    /\ last_write.prior = "Authenticating"
    /\ app_state.service_status = StatusNotRunning

\* C10: in every reachable AppState, under any interleaving of the tasks
\* that write it, the status is Connected exactly when a snapshot is cached,
\* and the status Authenticating implies that no snapshot is cached; since
\* every read is one lock acquisition, no reader sees Authenticating with a
\* snapshot.
C10_StatusMatchesSnapshot ==
    /\ app_state.service_status.tag = "Connected" <=> app_state.network # None
    /\ app_state.service_status.tag = "Authenticating" => app_state.network = None

\* C10 witness: set_authenticating has been applied by one task to a state
\* in which another task had cached a snapshot, and the snapshot is gone.
C10_Witness ==
    /\ last_write.op = "set_authenticating"
    /\ last_write.prior = "Connected"
    /\ app_state.service_status.tag = "Authenticating"
    /\ app_state.network = None
    /\ \E t \in Tasks : auth[t].pc = "tray"

(***************************************************************************)
(* Properties of the authentication flow, checked under SpecAuth (one call *)
(* of handle_service_auth followed step by step) or under Spec (the call   *)
(* among the application's other tasks).                                   *)
(***************************************************************************)
\* C11 as claimed: when handle_service_auth attempts to open the browser, it
\* has set AppState to Authenticating(url) and rebuilt the tray, and the tray
\* shows the authenticating menu, also when other tasks run concurrently.
C11_UiBeforeBrowser ==
    \A t \in Tasks :
        auth[t].pc \in {"xdg_open", "settle"} =>
            auth[t].menu_at_open = "authenticating"

HasEvent(a, e) == \E i \in 1..Len(a.events) : a.events[i] = e

\* C12: a failure to launch the browser never fails the flow: when the opener
\* fails xdg-open is tried, and whatever xdg-open gives (spawn error or
\* non-zero exit included) AppState stays Authenticating(url), the flow goes
\* on to the 3 s pause and to the poll for Connected, and it returns Ok.
C12_LaunchFailureTolerated ==
    \A t \in Tasks :
        LET a == auth[t]
        IN  HasEvent(a, "open_url failed") =>
                /\ a.pc \in {"xdg_open", "settle", "wait", "clear", "spawn", "returned"}
                /\ (a.pc = "xdg_open") = (a.events[Len(a.events)] = "open_url failed")
                /\ a.pc \in {"xdg_open", "settle", "wait"} =>
                       app_state.service_status = Authenticating(a.auth_url[1])
                /\ \A i \in 1..Len(a.events) :
                       a.events[i] = "open_url failed" =>
                           /\ i + 1 <= Len(a.events) => a.events[i + 1] \in XdgOutcomes
                           /\ i + 2 <= Len(a.events) => a.events[i + 2] = "sleep 3000"
                /\ a.pc \in {"wait", "clear", "spawn", "returned"} =>
                       HasEvent(a, "sleep 3000")
                /\ a.pc = "returned" => a.result[1].ok /\ a.wait_result # None

\* C12 witness: the opener failed, xdg-open could not be spawned, and the
\* flow polls for Connected with AppState at Authenticating(url).
C12_Witness ==
    \E t \in Tasks :
        /\ HasEvent(auth[t], "open_url failed")
        /\ HasEvent(auth[t], "xdg-open spawn error")
        /\ auth[t].pc = "wait"
        /\ auth[t].elapsed > 0
        /\ app_state.service_status = Authenticating(auth[t].auth_url[1])

\* the wait of a handle_service_auth call starts right after the 3 s pause
\* that follows the attempt to open the browser
AfterSettle(a) ==
    /\ Len(a.events) >= 2
    /\ a.events[Len(a.events)] = "sleep 3000"
    /\ a.events[Len(a.events) - 1] \in {"open_url"} \cup XdgOutcomes

C13_State ==
    \A t \in Tasks :
        LET a == auth[t]
        IN  /\ a.pc = "wait" =>
                   /\ a.last_poll # "Connected"
                   /\ a.timeout = AUTH_TIMEOUT_SECONDS
                   /\ a.elapsed <= a.timeout + MaxCommandSecs
                   /\ a.flow = "service" /\ a.elapsed = 0 => AfterSettle(a)
            /\ a.wait_result # None =>
                   /\ a.wait_result[1].ok = (a.last_poll = "Connected")
                   /\ ~a.wait_result[1].ok =>
                          a.wait_result[1].err =
                              [kind |-> "AuthenticationTimeout", n |-> AUTH_TIMEOUT_SECONDS]

C13_Step ==
    \A t \in Tasks :
        (auth[t].pc = "wait" /\ auth'[t] # auth[t]) =>
            LET a == auth[t]
                b == auth'[t]
            IN  \/ /\ b.pc = "wait"
                   /\ a.elapsed < a.timeout
                   /\ b.last_poll = "other"
                   /\ b.elapsed \in (a.elapsed + 1)..(a.elapsed + 1 + MaxCommandSecs)
                \/ /\ b.pc # "wait"
                   /\ a.elapsed < a.timeout
                   /\ b.last_poll = "Connected"
                   /\ b.wait_result = Some(OkUnit)
                \/ /\ b.pc # "wait"
                   /\ ~(a.elapsed < a.timeout)
                   /\ b.last_poll = a.last_poll
                   /\ b.wait_result # None /\ ~b.wait_result[1].ok

\* C13: wait_for_service_ready returns Ok exactly when a poll made before the
\* timeout has elapsed sees Connected; a poll that sees anything else, a
\* failed status command included, is ignored and followed by the next poll
\* one second (and the time of the command) later; once the timeout has
\* elapsed it returns Err(AuthenticationTimeout{seconds: timeout}); it always
\* returns.  In handle_service_auth it starts right after the 3 s pause that
\* follows the attempt to open the browser.
C13_WaitForServiceReady ==
    /\ []C13_State
    /\ [][C13_Step]_vars
    /\ \A t \in Tasks : (auth[t].pc = "wait") ~> (auth[t].pc # "wait")

\* C13 witness: every poll of a wait saw something else than Connected and
\* the wait has returned the timeout, the flow Ok.
C13_Witness ==
    \E t \in Tasks :
        /\ auth[t].wait_result = Some(Fail(AuthenticationTimeout(AUTH_TIMEOUT_SECONDS)))
        /\ auth[t].last_poll = "other"
        /\ auth[t].pc = "returned"
        /\ HasEvent(auth[t], "sleep 3000")

\* C14: when the wait of handle_service_auth has seen Connected, the flow
\* first writes update_network(None), after which the status is no longer
\* Authenticating, only then asks for the tray rebuild, and returns Ok.
C14_ClearThenRebuild ==
    \A t \in Tasks :
        LET a == auth[t]
            n == Len(a.events)
        IN  (a.flow = "service" /\ a.wait_result = Some(OkUnit)) =>
                /\ a.pc \in {"clear", "spawn", "returned"}
                /\ a.pc = "clear" =>
                       /\ ~HasEvent(a, "update_network")
                       /\ ~HasEvent(a, "rebuild_tray_after_delay")
                       /\ \A u \in Tasks : task[u].pc # "rebuild"
                /\ a.pc = "spawn" =>
                       /\ a.events[n] = "update_network"
                       /\ last_write.op = "update_network" /\ last_write.network = None
                       /\ last_write.prior = "Authenticating"
                       /\ app_state.service_status.tag # "Authenticating"
                       /\ \A u \in Tasks : task[u].pc # "rebuild"
                /\ a.pc = "returned" =>
                       /\ a.events[n - 1] = "update_network"
                       /\ a.events[n] = "rebuild_tray_after_delay"
                       /\ app_state.service_status.tag # "Authenticating"
                       /\ \E u \in Tasks : task[u].pc = "rebuild"
                       /\ a.result = Some(OkUnit)

\* C14 witness: the wait saw Connected, the state was cleared, the rebuild
\* asked for, and Ok returned.
C14_Witness ==
    \E t \in Tasks :
        /\ auth[t].flow = "service"
        /\ auth[t].wait_result = Some(OkUnit)
        /\ auth[t].pc = "returned"
        /\ HasEvent(auth[t], "rebuild_tray_after_delay")
        /\ app_state.service_status = StatusNotRunning

visit_colon == <<"v","i","s","i","t",":"," ">>

\* the scenario: the first status text said "authenticating" without a URL
\* to use, and on attempt 3 `twingate resources list` printed "visit: <url>"
VisitOnAttempt3(a) ==
    /\ a.flow = "service"
    /\ a.said_authenticating
    /\ a.found.attempt = 3
    /\ a.found.source = "resources"
    /\ HasPrefixAt(a.found.text, 1, visit_colon)

\* C15: when the first status text says "authenticating" without a URL the
\* search goes on, one attempt after the other; when on attempt 3 the
\* resources listing prints "visit: <url>", AppState is set to
\* Authenticating with exactly that URL and stays so through the wait; once
\* the wait has seen Connected the status is no longer Authenticating and
\* the flow returns Ok.
C15_AuthScenario ==
    \A t \in Tasks :
        LET a == auth[t]
            url == SubSeq(a.found.text, Len(visit_colon) + 1, Len(a.found.text))
        IN  VisitOnAttempt3(a) =>
                /\ a.sleeps = 2
                /\ a.auth_url = Some(url)
                /\ a.pc \in {"set", "tray", "open", "xdg_open", "settle", "wait",
                             "clear", "spawn", "returned"}
                /\ a.pc = "set" => app_state.service_status.tag # "Authenticating"
                /\ a.pc \in {"tray", "open", "xdg_open", "settle", "wait", "clear"} =>
                       app_state.service_status = Authenticating(url)
                /\ a.pc = "tray" => ~MenuShown("authenticating")
                /\ a.pc \in {"open", "xdg_open", "settle", "wait", "clear"} =>
                       /\ MenuShown("authenticating")
                       /\ tray_menu[1].url = url
                /\ a.wait_result = Some(OkUnit) /\ a.pc \in {"spawn", "returned"} =>
                       app_state.service_status.tag # "Authenticating"
                /\ a.wait_result = Some(OkUnit) /\ a.pc = "returned" =>
                       a.result = Some(OkUnit)

\* C15 witness: the scenario has run to its end.
C15_Witness ==
    \E t \in Tasks :
        /\ VisitOnAttempt3(auth[t])
        /\ auth[t].wait_result = Some(OkUnit)
        /\ auth[t].pc = "returned"
        /\ app_state.service_status.tag = "NotRunning"
        /\ last_write.prior = "Authenticating"

\* the detection loop has used up its attempts without a URL
Exhausted(a) == HasEvent(a, "no URL after all attempts")

\* C16 as claimed: detection makes at most 8 attempts; when they are
\* exhausted without a URL, handle_service_auth returns Ok(()) and AppState
\* never enters Authenticating.
C16_ExhaustedNeverAuthenticating ==
    \A t \in Tasks :
        LET a == auth[t]
        IN  /\ a.attempt <= 8
            /\ Exhausted(a) =>
                   /\ a.pc \in {"final_fetch", "returned"}
                   /\ a.pc = "returned" => a.result = Some(OkUnit)
                   /\ app_state.service_status.tag # "Authenticating"

\* C16, amended: detection makes at most 8 attempts, 1.5 s apart; when they
\* are exhausted without a URL one more fetch is made and the flow returns
\* Ok(()) whatever follows; AppState does not enter Authenticating unless
\* that fetch fails with an error whose message carries a URL, which is then
\* used as a URL found by the loop is.
C16_BoundedDetection ==
    \A t \in Tasks :
        LET a == auth[t]
        IN  /\ a.attempt <= 8
            /\ a.pc \in {"loop_status", "loop_fetch", "loop_resources", "loop_commands"} =>
                   a.sleeps = a.attempt - 1
            /\ Exhausted(a) =>
                   /\ a.attempt = 8 /\ a.sleeps = 7
                   /\ a.found.source \in {"none", "error"}
                   /\ a.pc = "returned" => a.result = Some(OkUnit)
                   /\ a.found.source = "none" =>
                          /\ a.pc \in {"final_fetch", "returned"}
                          /\ app_state.service_status.tag # "Authenticating"
                   /\ a.found.source = "error" =>
                          /\ extract_url_from_text(a.found.text) # None
                          /\ a.auth_url = extract_url_from_text(a.found.text)
                          /\ a.pc = "set" => app_state.service_status.tag # "Authenticating"

\* C16 witness: eight attempts found no URL, the last fetch failed with no
\* URL in its message, and the flow returned Ok(()) with AppState untouched.
C16_Witness ==
    \E t \in Tasks :
        /\ Exhausted(auth[t])
        /\ auth[t].found = NotFound
        /\ auth[t].pc = "returned"
        /\ auth[t].result = Some(OkUnit)
        /\ last_write.op = "update_network"
        /\ app_state.service_status = StatusNotRunning

\* C17 as claimed: every URL with which handle_service_auth writes
\* Authenticating(url) into AppState is longer than 20, whichever output it
\* was taken from (status, resources list, auth commands, error message).
C17_OnlyQualifyingUrl ==
    last_write.op = "set_authenticating" =>
        /\ Len(last_write.url) > 20
        /\ app_state.service_status.tag = "Authenticating" =>
               Len(app_state.service_status.url) > 20

\* C18 as claimed: the auth flow is started in both cases: when StartService
\* has started the daemon, and when get_network_data_with_retry reports
\* AuthenticationRequired to a caller (startup fetch, background retry,
\* cache refresh, delayed tray rebuild).
C18_AuthFlowTriggers ==
    \A t \in Tasks :
        /\ task[t].pc = "auth" => auth[t].pc # "idle"
        /\ task[t].auth_required => auth[t].pc # "idle"

\* a call of start_resource_auth has written nothing: AppState and the tray
\* are as they were when it started
Untouched ==
    /\ last_write.op = "update_network" /\ last_write.prior = "NotRunning"
    /\ app_state = update_network(AppState_new, last_write.network)
    /\ tray_menu = Some(build_tray_menu(app_state, last_write.network))

\* C19: start_resource_auth looks the resource up by its id in the snapshot
\* it fetches and returns its errors to the caller without side effects: no
\* snapshot gives ServiceNotRunning and an id the snapshot does not hold
\* gives ResourceNotFound, both without running the elevated auth command; a
\* non-zero exit of the elevated auth command gives CommandFailed, and the
\* wait for the service is not run.
C19_ResourceAuthErrors ==
    \A t \in Tasks :
        LET a == auth[t]
            id == a.resource[1].id
        IN  (a.flow = "resource" /\ a.fetched # None) =>
                /\ Untouched
                /\ ~a.fetched[1].ok =>
                       /\ a.pc = "returned" /\ a.result = Some(Fail(a.fetched[1].err))
                       /\ a.events = <<>>
                /\ a.fetched[1] = Ok(None) =>
                       /\ a.pc = "returned"
                       /\ a.result = Some(Fail(Error("ServiceNotRunning")))
                       /\ a.events = <<>>
                /\ (a.fetched[1].ok /\ a.fetched[1].value # None) =>
                       LET rs == a.fetched[1].value[1].resources
                       IN  IF \E i \in 1..Len(rs) : rs[i].id = id
                           THEN /\ \E i \in 1..Len(rs) : rs[i] = a.resource[1]
                                /\ a.pc = "exec" <=> a.events = <<>>
                           ELSE /\ a.pc = "returned"
                                /\ a.result = Some(Fail(Error("ResourceNotFound")))
                                /\ a.events = <<>>
                /\ HasEvent(a, "pkexec exit 1") =>
                       /\ a.pc = "returned"
                       /\ a.result = Some(Fail(Error("CommandFailed")))
                       /\ a.events = <<"pkexec exit 1">>
                       /\ a.wait_result = None /\ a.last_poll = "none"
                       /\ a.verified = None

\* C19 witness: the resource was found in the snapshot, the elevated auth
\* command exited non-zero, and CommandFailed was returned.
C19_Witness ==
    \E t \in Tasks :
        /\ auth[t].flow = "resource"
        /\ auth[t].fetched # None
        /\ HasEvent(auth[t], "pkexec exit 1")
        /\ auth[t].result = Some(Fail(Error("CommandFailed")))
        /\ Untouched

\* C20 as claimed: once the wait of wait_for_auth_completion has seen
\* Connected, the fetch that verifies never undoes the success: whatever it
\* returns (an error, retry exhaustion, no snapshot), Ok is returned.
C20_VerifyNeverReverts ==
    \A t \in Tasks :
        LET a == auth[t]
        IN  (a.flow = "resource" /\ a.wait_result = Some(OkUnit) /\ a.verified # None) =>
                /\ a.pc = "returned"
                /\ a.result = Some(OkUnit)

(***************************************************************************)
(* The AppState mutex, checked under Spec.                                 *)
(***************************************************************************)
\* the next step of task t takes the lock
WantsLock(t) ==
    \/ task[t].pc \in {"startup", "startup_tray", "bg_sleep", "rebuild", "rebuild_tray",
                       "refresh"}
    \/ auth[t].pc \in {"set", "tray", "clear"}

\* C21: no task holds the AppState lock across a suspension point: at every
\* await of every flow (each state of the model is one) the mutex is free,
\* so that no task takes the lock while it holds it and a task that is about
\* to take the lock is never kept from it for ever.
C21_NoLockAcrossAwait ==
    /\ lock = 0
    /\ \A t \in Tasks : WantsLock(t) => lock # t

\* C21: two tasks are about to take the lock, after an auth flow has written
\* the state under it
C21_Witness ==
    /\ last_write.op = "set_authenticating"
    /\ \E t, u \in Tasks : t # u /\ auth[t].pc = "tray" /\ task[u].pc = "rebuild"

(***************************************************************************)
(* The clock of the auth flow, checked under SpecAuth.                     *)
(***************************************************************************)
\* the milliseconds that have passed at least since the flow started: its
\* sleeps (1500 ms after each detection attempt without a URL, 3000 ms after
\* the browser, 500 ms before wait_for_auth_completion waits) and the
\* seconds on the clock of wait_for_service_ready; the commands take time too
since_flow_start_ms(a) ==
    1500 * a.sleeps
    + (IF HasEvent(a, "sleep 3000") THEN 3000 ELSE 0)
    + (IF HasEvent(a, "sleep 500") THEN 500 ELSE 0)
    + 1000 * a.elapsed

\* C22: the authentication timeout is a deadline measured from the start of
\* the auth flow: whenever wait_for_service_ready is about to poll again
\* (its clock has not reached the timeout), less than AUTH_TIMEOUT_SECONDS
\* have passed since the flow started.
C22_DeadlineFromFlowStart ==
    \A t \in Tasks :
        (auth[t].pc = "wait" /\ auth[t].elapsed < auth[t].timeout) =>
            since_flow_start_ms(auth[t]) < 1000 * AUTH_TIMEOUT_SECONDS

(***************************************************************************)
(* Properties of the classifier, checked under SpecText and SpecFetch.     *)
(***************************************************************************)
\* a call of from_status_output on a text put together from parts has returned
Classified == text_call.fn = "from_status_output" /\ text_call.parts[1].kind = "status"

\* C23: from_status_output returns AuthRequired for every status text that
\* holds an authentication phrase (an explicit phrase, or the stem "auth"
\* with "required", "needed" or "expired"), whatever keywords of the
\* not-running, starting, connecting and connected families the text holds
\* before and after it, in any case and between blank characters.
C23_AuthRequiredDominates ==
    (Classified /\ text_call.parts[1].auth # None) =>
        text_call.result = Some("AuthRequired")

\* C23 witness: a text in capitals with a connected keyword, an explicit
\* phrase and a not-running keyword has classified as AuthRequired
C23_Witness ==
    /\ Classified
    /\ text_call.parts[1].auth \in {Some(p) : p \in AuthPhrases}
    /\ text_call.parts[1].first \in {Some(w) : w \in ConnectedWords}
    /\ text_call.parts[1].second \in {Some(w) : w \in NotRunningWords}
    /\ text_call.parts[1].style = "capitals"
    /\ text_call.result = Some("AuthRequired")

\* the family of a keyword
Family(w) ==
    IF w \in NotRunningWords THEN "NotRunning"
    ELSE IF w \in StartingWords THEN "Starting"
    ELSE IF w \in ConnectingWords THEN "Connecting"
    ELSE "Connected"

\* the families of the keywords a text was put together from
FamiliesOf(p) == {Family(w[1]) : w \in {p.first, p.second} \ {None}}

\* the first of the families in the order NotRunning, Starting, Connecting, Connected
FirstFamily(fs) ==
    IF "NotRunning" \in fs THEN "NotRunning"
    ELSE IF "Starting" \in fs THEN "Starting"
    ELSE IF "Connecting" \in fs THEN "Connecting"
    ELSE "Connected"

\* C24: for a status text without an authentication phrase and with keywords
\* of one or two families, from_status_output returns the first of these
\* families in the order NotRunning, Starting, Connecting, Connected,
\* wherever the keywords stand in the text, in any case and between blank
\* characters.
C24_FirstFamilyWins ==
    (Classified /\ text_call.parts[1].auth = None /\ FamiliesOf(text_call.parts[1]) # {}) =>
        text_call.result = Some(FirstFamily(FamiliesOf(text_call.parts[1])))

\* C24 witness: a text between blank characters with a connected keyword
\* followed by a not-running keyword has classified as NotRunning
C24_Witness ==
    /\ Classified
    /\ text_call.parts[1].auth = None
    /\ text_call.parts[1].first \in {Some(w) : w \in ConnectedWords \ {<<"a","c","t","i","v","e">>}}
    /\ text_call.parts[1].second \in {Some(w) : w \in NotRunningWords}
    /\ text_call.parts[1].style = "padded"
    /\ text_call.result = Some("NotRunning")

\* the status texts of StatusTexts without any keyword
NoKeywordOutputs == {TextOutput(<<>>), TextOutput(<<"x","y","z","z","y">>)}

\* C25: from_status_output gives a state for every text the status command
\* prints, and Connecting for a text without keywords, the empty one
\* included; get_network_data_with_retry takes that poll as transitional:
\* the iteration goes to the exhaustion check and the sleep before the next
\* poll without a resources command and without returning.
C25_UnknownIsConnecting ==
    \A t \in Tasks :
        LET f == fetch[t]
        IN  /\ (Polled(f) /\ f.status_out[1].spawned /\ f.status_out[1].utf8) =>
                   /\ Svc(f).ok
                   /\ Svc(f).state \in {"NotRunning", "Starting", "Connecting", "Connected",
                                        "AuthRequired"}
            /\ (Polled(f) /\ f.status_out[1] \in NoKeywordOutputs) =>
                   /\ Svc(f).state = "Connecting"
                   /\ IsTransitional(Svc(f).state)
                   /\ f.pc = "retry" /\ ~Returned(f) /\ ~Listed(f)

\* C25 witness: the second poll of a call has printed the empty text and the
\* call is about to sleep and retry
C25_Witness ==
    \E t \in Tasks :
        /\ Polled(fetch[t]) /\ fetch[t].status_out[1] = TextOutput(<<>>)
        /\ fetch[t].attempts = 2
        /\ fetch[t].pc = "retry"

(***************************************************************************)
(* Properties of the URL extraction, checked under SpecText.               *)
(***************************************************************************)
\* a call of the function has returned; its Option is text_call.result[1]
Extracted(fn) == text_call.fn = fn

\* the match of URL_REGEX that starts at position i
MatchAt(s, i) == SubSeq(s, i, RunEnd(s, i + SchemeAt(s, i)))

\* the positions of the matches longer than 10 characters
Qualifying(s) == {i \in MatchStarts(s) : Len(MatchAt(s, i)) > 10}

\* the trailing punctuation, then the trailing quotes, taken off
Cleaned(url) ==
    trim_end_matches(trim_end_matches(url, {".", ",", ")", "]", "}"}), {"\""})

\* C26: extract_url_from_text returns the leftmost URL of the text that
\* qualifies (a match of more than 10 characters), and None only when the
\* text holds no qualifying URL.
C26_FirstQualifyingUrl ==
    Extracted("extract_url_from_text") =>
        LET q == Qualifying(text_call.text)
        IN  IF q = {} THEN text_call.result[1] = None
            ELSE text_call.result[1] =
                     Some(Cleaned(MatchAt(text_call.text,
                                          CHOOSE i \in q : \A j \in q : i <= j)))

\* C27: every URL extract_url_from_text returns has at least 11 characters,
\* and the fragments "http://a" and "https://" give None.
C27_AtLeastElevenCharacters ==
    Extracted("extract_url_from_text") =>
        /\ text_call.result[1] # None => Len(text_call.result[1][1]) >= 11
        /\ text_call.text \in {<<"h","t","t","p",":","/","/","a">>,
                               <<"h","t","t","p","s",":","/","/">>}
               => text_call.result[1] = None

\* C28: no URL extract_url_from_text returns ends with one of . , ) ] } or
\* with a double quote.
C28_NoTrailingPunctuation ==
    Extracted("extract_url_from_text") =>
        (text_call.result[1] # None =>
            LET url == text_call.result[1][1]
            IN  url # <<>> /\ url[Len(url)] \notin {".", ",", ")", "]", "}", "\""})

\* the first position at which pat stands in s in any case, 0 when there is none
find_ignore_case(s, pat) ==
    LET at == {i \in 1..(Len(s) - Len(pat) + 1) :
                  eq_ignore_ascii_case(SubSeq(s, i, i + Len(pat) - 1), pat)}
    IN  IF at = {} THEN 0 ELSE CHOOSE i \in at : \A j \in at : i <= j

\* the URL after the first of the patterns from number k on that has one after it
RECURSIVE UrlAfterFirstPattern(_, _, _)
UrlAfterFirstPattern(text, patterns, k) ==
    IF k > Len(patterns) THEN None
    ELSE LET pos == find_ignore_case(text, patterns[k])
             url == IF pos = 0 THEN None
                    ELSE extract_url_from_text(
                             SubSeq(text, pos + Len(patterns[k]), Len(text)))
         IN  IF url # None THEN url ELSE UrlAfterFirstPattern(text, patterns, k + 1)

C30_StrictUtf8 ==
    \A t \in Tasks :
        auth[t].invalid_utf8_seen =>
            /\ auth[t].pc = "returned"
            /\ auth[t].result = Some(Fail(Error("InvalidUtf8")))

(***************************************************************************)
(* Properties of the tray's pure functions, checked under SpecText.        *)
(***************************************************************************)
\* the resource a call of get_address_from_resource was given
AddressOf == text_call.parts[1]

\* C31: get_address_from_resource returns the alias when the alias is present
\* and not empty, and the address when the alias is absent or is the empty
\* string.
C31_AliasElseAddress ==
    text_call.fn = "get_address_from_resource" =>
        /\ (Len(AddressOf.alias) = 1 /\ Len(AddressOf.alias[1]) > 0)
               => text_call.result = Some(AddressOf.alias[1])
        /\ (AddressOf.alias = <<>> \/ AddressOf.alias = << <<>> >>)
               => text_call.result = Some(AddressOf.address)

\* C31: a call on a resource whose alias is the empty string gave the address
C31_Witness ==
    /\ text_call.fn = "get_address_from_resource"
    /\ AddressOf.alias = Some(<<>>)
    /\ text_call.result = Some(AddressOf.address)
    /\ AddressOf.address # <<>>

(***************************************************************************)
(* Properties of the cache-refresh paths, checked under Spec.              *)
(***************************************************************************)
\* the tasks whose refresh fetch is in flight: should_refresh was true for
\* them and the result of their get_network_data is not written yet
Refreshing == {t \in Tasks : task[t].pc = "refresh"}

\* C32: AppState.refreshing is true while a refresh fetch is in flight, so a
\* second caller of should_refresh gets false and at most one refresh fetch
\* is in flight at a time.
C32_OneRefreshInFlight ==
    /\ Refreshing # {} => app_state.refreshing
    /\ Cardinality(Refreshing) <= 1

\* a click on Copy Address or Open in Browser: the task reads the cache
Clicked(t) == task[t].pc = "idle" /\ task'[t].pc \in {"use_network", "refresh"}

\* the cache was written less than 30 s ago, or a refresh is flagged
CacheFresh == app_state.refreshing \/ app_state.last_update = Some("fresh")

\* the refresh fetch of the task failed: the handler returns the error
RefreshFailed(t) == task[t].pc = "refresh" /\ task'[t].pc = "idle"

C33_Step(t) ==
    /\ (Clicked(t) /\ CacheFresh) =>
           /\ task'[t].pc = "use_network"
           /\ task'[t].network_data = app_state.network
           /\ app_state' = app_state /\ last_write' = last_write
    /\ RefreshFailed(t) =>
           /\ app_state' = app_state /\ last_write' = last_write
           /\ tray_menu' = tray_menu

\* C33: in the cache-refresh paths, a fresh cache is used as it is, with no
\* fetch and no write of AppState; a refresh fetch that fails ends the
\* handler with the error and leaves AppState as it was.
C33_CacheOrUnchanged == [][\A t \in Tasks : C33_Step(t)]_vars

\* C33: one handler is using the snapshot it read from the cache and another
\* has returned the AuthenticationRequired error of its refresh fetch, the
\* state still being the one startup wrote
C33_Witness ==
    \E t, u \in Tasks :
        /\ task[t].pc = "use_network" /\ task[t].network_data = app_state.network
        /\ task[u].pc = "idle" /\ task[u].auth_required
        /\ app_state.last_update = Some("stale")
        /\ app_state.service_status = StatusConnected
        /\ last_write.op = "update_network" /\ last_write.prior = "NotRunning"

(***************************************************************************)
(* The results of the fetcher, checked under SpecFetch.                    *)
(***************************************************************************)
\* the resources command of the current iteration answered ServiceConnecting
NotReady(f) == Listed(f) /\ ~Res(f).ok /\ Res(f).err.kind = "ServiceConnecting"

\* C34: get_network_data_with_retry never returns Err(ServiceConnecting): a
\* resources answer of that kind leads to a retry or to
\* RetryLimitExceeded{attempts: max_retries + 1}; and it returns Ok(None) only
\* in an iteration whose status poll classified as NotRunning, in which the
\* resources command was not run.
C34_ResultTaxonomy ==
    \A t \in Tasks :
        LET f == fetch[t]
        IN  /\ Returned(f) => f.result[1].err.kind # "ServiceConnecting"
            /\ (Returned(f) /\ f.result[1].err.kind = "RetryLimitExceeded") =>
                   f.result[1].err.n = f.max_retries + 1
            /\ NotReady(f) =>
                   \/ f.pc = "retry"
                   \/ Returned(f) /\ f.result = Some(Fail(RetryLimitExceeded(f.max_retries + 1)))
            /\ (Returned(f) /\ f.result = Some(Ok(None))) =>
                   /\ Polled(f) /\ Svc(f).ok /\ Svc(f).state = "NotRunning"
                   /\ ~Listed(f)

\* C34: the resources command of the last attempt of a call printed null,
\* which was taken for not ready and not for an absent snapshot: nothing is
\* returned in that iteration
C34_Witness ==
    \E t \in Tasks :
        /\ Listed(fetch[t]) /\ trim(fetch[t].resources_out[1].stdout) = json_null
        /\ NotReady(fetch[t])
        /\ fetch[t].pc = "retry" /\ fetch[t].result = None
        /\ fetch[t].retry_count = fetch[t].max_retries /\ fetch[t].max_retries = 1

(***************************************************************************)
(* The check of the auth flow against the classification of the fetcher,   *)
(* checked under SpecText.                                                 *)
(***************************************************************************)
\* C35: every status text that from_status_output classifies as AuthRequired
\* is taken as requiring authentication by the check of handle_service_auth
\* (AuthStateManager::is_auth_required), so that the flow does not return
\* early on it.
C35_DetectorsAgree ==
    (text_call.fn = "is_auth_required"
         /\ from_status_output(text_call.text) = "AuthRequired")
        => text_call.result = Some(TRUE)

(***************************************************************************)
(* What the auth flows leave in AppState, checked under SpecAuth.          *)
(***************************************************************************)
\* the wait of the flow ended on its timeout
TimedOut(a) == a.wait_result = Some(Fail(AuthenticationTimeout(AUTH_TIMEOUT_SECONDS)))

\* C36: when the wait of handle_service_auth times out, the function returns
\* Ok(()), writes nothing to AppState and asks for no tray rebuild: the
\* status is still the Authenticating(url) the flow wrote.
C36_TimeoutLeavesAuthenticating ==
    \A t \in Tasks :
        LET a == auth[t]
        IN  (a.flow = "service" /\ TimedOut(a)) =>
                /\ a.pc = "returned" /\ a.result = Some(OkUnit)
                /\ ~HasEvent(a, "update_network")
                /\ ~HasEvent(a, "rebuild_tray_after_delay")
                /\ \A u \in Tasks : task[u].pc # "rebuild"
                /\ app_state.service_status = Authenticating(a.auth_url[1])
                /\ app_state.network = None
                /\ last_write.op = "set_authenticating"

\* C36: a call of handle_service_auth has returned after its wait timed out,
\* the last poll not having seen Connected
C36_Witness ==
    \E t \in Tasks :
        /\ auth[t].flow = "service" /\ TimedOut(auth[t])
        /\ auth[t].pc = "returned"
        /\ auth[t].last_poll = "other"
        /\ app_state.service_status.tag = "Authenticating"

\* C37: start_resource_auth writes nothing to AppState and asks for no tray
\* rebuild, whether it succeeds, fails or times out: the snapshot, the status
\* and last_update are after it what they were before.
C37_ResourceAuthWritesNothing ==
    [][\A t \in Tasks :
           auth[t].flow = "resource" =>
               /\ app_state' = app_state /\ last_write' = last_write
               /\ tray_menu' = tray_menu /\ task' = task]_vars

\* C37: a call of start_resource_auth has returned Ok after its verifying
\* fetch gave a snapshot, the state being the one written before the call
C37_Witness ==
    \E t \in Tasks :
        /\ auth[t].flow = "resource" /\ auth[t].pc = "returned"
        /\ auth[t].result = Some(OkUnit)
        /\ auth[t].verified # None /\ auth[t].verified[1].ok
        /\ auth[t].verified[1].value # app_state.network
        /\ last_write.op = "update_network" /\ last_write.prior = "NotRunning"
        /\ \A u \in Tasks : task[u].pc # "rebuild"

(***************************************************************************)
(* The authentication marker among the application's tasks, checked under  *)
(* Spec.                                                                   *)
(***************************************************************************)
\* the flow has written Authenticating(url) and its wait has not ended
Unresolved(a) ==
    a.flow = "service" /\ a.pc \in {"tray", "open", "xdg_open", "settle", "wait"}

\* C38: from the write of Authenticating(url) by handle_service_auth until
\* that flow resolves, the status stays Authenticating(url): no task running
\* at the same time overwrites it.
C38_MarkerHeldUntilResolved ==
    \A t \in Tasks :
        Unresolved(auth[t]) =>
            app_state.service_status = Authenticating(auth[t].auth_url[1])

(***************************************************************************)
(* The state after the authentication, checked under SpecDone.             *)
(***************************************************************************)
\* the flow has written update_network(None) after its wait saw Connected
DoneWritten ==
    \E t \in Tasks :
        /\ auth[t].flow = "service" /\ auth[t].pc = "spawn"
        /\ app_state.service_status = StatusNotRunning

\* C39: the NotRunning written when the flow reaches Done is temporary: with
\* the daemon reporting Connected and serving a snapshot from then on, a
\* delayed tray rebuild eventually writes the snapshot and AppState becomes
\* Connected.
C39_NotRunningIsTemporary ==
    DoneWritten ~> (app_state.service_status = StatusConnected /\ app_state.network # None)

(***************************************************************************)
(* The ids of the menu items, checked under SpecText.                      *)
(***************************************************************************)
\* the action of the item with a prefix
ActionOf(prefix) ==
    IF prefix = COPY_ADDRESS_ID THEN "CopyAddress"
    ELSE IF prefix = AUTHENTICATE_ID THEN "Authenticate"
    ELSE "OpenInBrowser"

\* C40: the id of a menu item leads back to the resource the item was built
\* for: "<prefix>-<resource.id>" is decoded to the action of the prefix and
\* the handler's lookup finds that same resource, for every resource id,
\* those that contain dashes included.
C40_EventIdRoundTrip ==
    text_call.fn = "from_event_id" =>
        /\ text_call.result[1].action.action = ActionOf(text_call.parts[1].prefix)
        /\ text_call.result[1].found = Some(text_call.parts[1].index)

====
